---- MODULE Spec2Model ----
(***************************************************************************)
(* A model of the nocciolo kernel core: the boot-info frame allocator, the *)
(* virtual page bump allocator, the scancode stream between the keyboard   *)
(* interrupt and its consuming task, the PIT sleep loop and the interrupt  *)
(* handlers with the spin locks they share with task-domain code.          *)
(*                                                                         *)
(* Each subsystem has its own specification (SpecFrame, SpecPage, ...)     *)
(* over the one list of variables; a specification leaves the variables of *)
(* the other subsystems at their initial values.                           *)
(***************************************************************************)
EXTENDS Integers, Sequences, FiniteSets, TLC

VARIABLES
    \* ---- BootInfoFrameAllocator (kernel/src/memory.rs) ----
    memory_regions,     \* the bootloader's memory map: a sequence of regions
    next,               \* BootInfoFrameAllocator::next
    frameLastOp,        \* "none" | "allocate" | "allocate_at": the last call
    frameLastResult,    \* Option<PhysFrame> the last call returned
    allocateCalls,      \* number of allocate_frame calls made so far
    framesReturned,     \* set of frame addresses returned so far
    frameReturnedTwice, \* some call returned a frame an earlier call returned
    \* ---- PageAllocator (kernel/src/allocator/page.rs) ----
    addr,               \* PageAllocatorImpl::addr, a VirtAddr
    pageRuns,           \* the runs handed out so far: <<[start, n], ...>>
    pagePanicked,       \* assert_ne!(n, 0) failed
    \* ---- ScancodeStream (kernel/src/task/keyboard.rs) ----
    queueInit,          \* SCANCODE_QUEUE has been initialised
    queue,              \* the ArrayQueue<u8>, oldest byte first
    wakerSlot,          \* WAKER's stored waker: "none" | "task"
    wakerState,         \* WAKER's state: "WAITING" | "REGISTERING" | "REGISTERING_WAKING"
    taskWoken,          \* the task's waker was woken since the executor last polled it
    streamPc,           \* where the print_keypresses task stands
    observed,           \* the bytes poll_next returned as Ready(Some(b)), in order
    nPassed,            \* number of add_scancode calls so far
    dropLog,            \* per dropped byte: its index and the queue at that moment
    \* ---- interrupts and locks (kernel/src/interrupts.rs, main.rs, device/pit.rs) ----
    mainPc,             \* where the code outside the handlers stands
    interruptsEnabled,  \* the processor's interrupt flag
    locks,              \* the flag of each spin::Mutex
    picsState,          \* the chained PICs: "uninitialized" | "initialized" | "disabled"
    localApicExists,    \* the LocalApic INSTANCE is Some
    uptime,             \* the tick counter behind TIMER
    sleepMs,            \* pit::sleep: ms
    sleepEnd,           \* pit::sleep: end
    logLevel,           \* level of the record Logger::log is writing
    irqPc,              \* where the running handler stands, "none" outside handlers
    irqVector,          \* "Timer" | "Keyboard": the handler that runs
    irqEntryUptime,     \* the tick counter when the handler was entered
    irqScancode,        \* keyboard handler: the byte read from port 0x60
    portReads,          \* reads of port 0x60 in this run of the handler
    addArgs,            \* bytes handed to add_scancode in this run of the handler
    eoiLog,             \* end-of-interrupt signals sent in this run of the handler
    \* ---- NoccioloAcpiHandler (kernel/src/device/acpi/handler.rs) ----
    pageTable,          \* the leaf entries of the page table
    acpiMappings,       \* the PhysicalMappings alive
    acpiMapCalls,       \* number of map_physical_region calls so far
    acpiPanicked,       \* an expect() of the mapper failed
    acpiLast,           \* the last map/unmap call
    acpiPrev,           \* the call before it
    \* ---- DeviceEnumerator (kernel/src/device/pci/config.rs) ----
    pciConfig,          \* the populated slots <<bus, device>> of the configuration space
    enumBus,            \* DeviceEnumerator::bus
    enumDevice,         \* DeviceEnumerator::device
    pciProbed,          \* the slots <<bus, device>> whose vendor id was read
    pciYielded,         \* the items next() has returned, in order
    pciExhaustedCalls,  \* number of next() calls that returned None
    \* ---- System::request_shutdown (kernel/src/meta/system.rs) ----
    cpuBrand,           \* Option<String>: the processor brand string
    acpiData,           \* what ACPI_DATA holds and how the platform answers
    sdPc,               \* where request_shutdown stands
    hypervisor,         \* request_shutdown: hypervisor
    sdPortWrites,       \* the port writes request_shutdown made, in order
    amlCalls,           \* the AML methods invoked, in order
    sdError,            \* the Err of the ACPI sequence, if any
    acpiEntered,        \* shutdown_using_acpi was called
    \* ---- IOApic (kernel/src/interrupts/apic/io.rs) ----
    ioRegs,             \* the redirection registers of the I/O APIC, per entry
    ioInitialRegs,      \* what they held before initialize
    redirection_entry_count, \* IOApic::redirection_entry_count
    ioIndex,            \* map_all_to_spurious_vectors: index; write_entry: index
    ioEntry,            \* write_entry: entry, None before the call
    ioPc,               \* where initialize stands
    \* ---- LocalApic (kernel/src/interrupts/apic/local.rs) ----
    lapicBaseOffset,    \* the physical APIC base modulo the page size
    spuriousLocalApic,  \* InterruptIndex::SpuriousLocalApic as u8
    lvtErrorVector,     \* InterruptIndex::LvtError as u8
    lapicRegs,          \* the registers of the Local APIC, by name
    lapicLog,           \* the register accesses made so far
    lapicPanicked,      \* an assert! of read or write failed
    lapicStray,         \* an access was made outside the pages of the block
    lapicPc,            \* "new" | "initialized" | "panicked" | "halted"
    \* ---- init (kernel/src/main.rs, device/acpi/mod.rs, apic/mod.rs, pci/mod.rs) ----
    bootPlatform,       \* what the firmware offers
    acpiCache,          \* ACPI_DATA
    bootPanic,          \* the message of the panic, None if none
    pciMechanism,       \* the mechanism pci::init enumerates with
    bootPc,             \* where init stands
    \* ---- PCI configuration access (device/pci/config.rs, types.rs, device/acpi/mod.rs) ----
    cfgCall,            \* the last call and its arguments
    cfgAddressPort,     \* what CONFIG_ADDRESS latches
    cfgSpace,           \* the dwords of the functions that answer
    cfgBefore,          \* cfgSpace before the last call
    cfgLog,             \* the port accesses of the last call
    cfgResult,          \* what the last call returned
    cfgPc,              \* "address": an encoder is to be applied, "ports": the accessors run
    \* ---- Executor::run (kernel/src/main.rs, specification 4.14) ----
    execPc              \* where Executor::run stands

frameVars == <<memory_regions, next, frameLastOp, frameLastResult,
               allocateCalls, framesReturned, frameReturnedTwice>>
pageVars == <<addr, pageRuns, pagePanicked>>

kbdVars == <<queueInit, queue, wakerSlot, wakerState, taskWoken, streamPc,
             observed, nPassed, dropLog>>

irqVars == <<mainPc, interruptsEnabled, locks, picsState, localApicExists,
             uptime, sleepMs, sleepEnd, logLevel, irqPc, irqVector,
             irqEntryUptime, irqScancode, portReads, addArgs, eoiLog>>

acpiVars == <<pageTable, acpiMappings, acpiMapCalls, acpiPanicked, acpiLast, acpiPrev>>

pciVars == <<pciConfig, enumBus, enumDevice, pciProbed, pciYielded, pciExhaustedCalls>>

sdVars == <<cpuBrand, acpiData, sdPc, hypervisor, sdPortWrites, amlCalls,
            sdError, acpiEntered>>

ioVars == <<ioRegs, ioInitialRegs, redirection_entry_count, ioIndex, ioEntry, ioPc>>

lapicVars == <<lapicBaseOffset, spuriousLocalApic, lvtErrorVector, lapicRegs,
               lapicLog, lapicPanicked, lapicStray, lapicPc>>

bootVars == <<bootPlatform, acpiCache, bootPanic, pciMechanism, bootPc>>

cfgVars == <<cfgCall, cfgAddressPort, cfgSpace, cfgBefore, cfgLog, cfgResult, cfgPc>>

execVars == <<execPc>>

vars == <<frameVars, pageVars, kbdVars, irqVars, acpiVars, pciVars, sdVars, ioVars, lapicVars, bootVars, cfgVars, execVars>>

\* Option<T>: None is the empty sequence, Some(x) the one-element sequence.
None == <<>>
Some(x) == <<x>>

PAGE_SIZE == 4096

(***************************************************************************)
(* BootInfoFrameAllocator                                                  *)
(***************************************************************************)

\* Bounds of the frame-allocator model.
MaxExhaustedCalls == 2  \* allocate_frame calls made after the frames ran out

\* PhysAddr::align_down(4096) / PhysFrame::containing_address
AlignDown(a) == a - (a % PAGE_SIZE)

Region(s, e, k) == [start |-> s, end |-> e, kind |-> k]

\* Memory maps the bootloader may hand over (regions page-aligned and not
\* overlapping).  The first is the map of the specification's scenario:
\* one Usable region [0x10_0000, 0x20_0000).
MemoryMaps ==
    { << Region(1048576, 2097152, "Usable") >>,
      << Region(4096, 12288, "Usable"),
         Region(12288, 20480, "Bootloader"),
         Region(32768, 40960, "Usable") >>,
      << Region(0, 4096, "Bootloader") >>,
      << Region(8192, 8192, "Usable"),
         Region(16384, 28672, "Usable"),
         Region(28672, 32768, "UnknownUefi") >> }

\* (r.start..r.end).step_by(4096), each address turned into its frame by
\* PhysFrame::containing_address: start, start + 4096, ... while below end
StepFrames(a, e) ==
    LET count == IF a < e THEN ((e - a) + (PAGE_SIZE - 1)) \div PAGE_SIZE ELSE 0
    IN  [i \in 1..count |-> AlignDown(a + (i - 1) * PAGE_SIZE)]

\* usable_frames with its filter on MemoryRegionKind::Usable left out
RECURSIVE usable_frames_unfiltered(_)
usable_frames_unfiltered(regions) ==
    IF regions = <<>> THEN <<>>
    ELSE StepFrames(Head(regions).start, Head(regions).end)
            \o usable_frames_unfiltered(Tail(regions))

\* BootInfoFrameAllocator::usable_frames: the frames of the Usable regions,
\* in memory-map order
RECURSIVE usable_frames(_)
usable_frames(regions) ==
    IF regions = <<>> THEN <<>>
    ELSE (IF Head(regions).kind = "Usable"
            THEN StepFrames(Head(regions).start, Head(regions).end)
            ELSE <<>>)
         \o usable_frames(Tail(regions))

\* Iterator::nth(n): the n-th item counted from 0, or None
Nth(s, n) == IF n < Len(s) THEN Some(s[n + 1]) ELSE None

\* The physical addresses allocate_frame_from_physical is called with:
\* region starts, an unaligned address inside the second page, region ends.
PhysProbes(regions) ==
    UNION { {regions[i].start, regions[i].start + PAGE_SIZE + 1, regions[i].end}
            : i \in 1..Len(regions) }

FrameRecord(op, result) ==
    /\ frameLastOp' = op
    /\ frameLastResult' = result
    /\ framesReturned' =
         IF result = None THEN framesReturned
         ELSE framesReturned \cup {result[1]}
    /\ frameReturnedTwice' =
         (frameReturnedTwice \/ (result # None /\ result[1] \in framesReturned))

\* FrameAllocator::allocate_frame
allocate_frame ==
    /\ next < Len(usable_frames(memory_regions)) + MaxExhaustedCalls
    /\ LET frame == Nth(usable_frames(memory_regions), next)
       IN  /\ next' = next + 1
           /\ allocateCalls' = allocateCalls + 1
           /\ FrameRecord("allocate", frame)
    /\ UNCHANGED memory_regions

\* The first usable frame whose start address is ptr, or None
FindFrame(frames, ptr) ==
    IF \E i \in 1..Len(frames) : frames[i] = ptr THEN Some(ptr) ELSE None

\* BootInfoFrameAllocator::allocate_frame_from_physical
allocate_frame_from_physical(phys) ==
    /\ LET ptr == AlignDown(phys)
       IN  FrameRecord("allocate_at", FindFrame(usable_frames(memory_regions), ptr))
    /\ UNCHANGED <<memory_regions, next, allocateCalls>>

\* BootInfoFrameAllocator::init
FrameInit ==
    /\ memory_regions \in MemoryMaps
    /\ next = 0
    /\ frameLastOp = "none"
    /\ frameLastResult = None
    /\ allocateCalls = 0
    /\ framesReturned = {}
    /\ frameReturnedTwice = FALSE

FrameIdle ==
    /\ memory_regions = << Region(0, 4096, "Bootloader") >>
    /\ next = 0
    /\ frameLastOp = "none"
    /\ frameLastResult = None
    /\ allocateCalls = 0
    /\ framesReturned = {}
    /\ frameReturnedTwice = FALSE

(***************************************************************************)
(* PageAllocator                                                           *)
(***************************************************************************)

\* Bounds of the page-allocator model.
MaxPageCalls == 5       \* allocate_n calls in one run
MaxPagesPerCall == 3    \* largest n passed to allocate_n

\* A VirtAddr is kept as page number and offset in the page (the address is
\* page * 4096 + offset), since 0x1_000_000_000 exceeds TLC's 32-bit integers.
VirtAddr(page, offset) == [page |-> page, offset |-> offset]

\* VirtAddr += bytes
VirtAddrAdd(a, bytes) ==
    VirtAddr(a.page + ((a.offset + bytes) \div PAGE_SIZE),
             (a.offset + bytes) % PAGE_SIZE)

\* PageAllocatorImpl::new: VirtAddr::new_truncate(0x1_000_000_000),
\* which is page 0x1_000_000 = 16777216, offset 0
PageAllocatorImpl_new == VirtAddr(16777216, 0)

\* allocate_n advancing the cursor by one page whatever n is
allocate_n_one_page(n) ==
    /\ ~pagePanicked
    /\ Len(pageRuns) < MaxPageCalls
    /\ IF n = 0
         THEN /\ pagePanicked' = TRUE
              /\ UNCHANGED <<addr, pageRuns>>
         ELSE /\ addr' = VirtAddrAdd(addr, 4096)
              /\ pageRuns' = Append(pageRuns, [start |-> addr, n |-> n])
              /\ UNCHANGED pagePanicked

\* PageAllocator::allocate_n
allocate_n(n) ==
    /\ ~pagePanicked
    /\ Len(pageRuns) < MaxPageCalls
    /\ IF n = 0
         THEN /\ pagePanicked' = TRUE
              /\ UNCHANGED <<addr, pageRuns>>
         ELSE LET size == n * 4096
              IN  /\ addr' = VirtAddrAdd(addr, size)
                  /\ pageRuns' = Append(pageRuns, [start |-> addr, n |-> n])
                  /\ UNCHANGED pagePanicked

\* PageAllocator::allocate
allocate == allocate_n(1)

PageInit ==
    /\ addr = PageAllocatorImpl_new
    /\ pageRuns = <<>>
    /\ pagePanicked = FALSE

(***************************************************************************)
(* ScancodeStream: add_scancode (interrupt context) against poll_next      *)
(* (task context).  The kernel runs on one processor: the keyboard handler *)
(* runs to completion between any two steps of the task.                   *)
(***************************************************************************)

\* Bounds of the scancode-stream model.
MaxScancodes == 102       \* keyboard interrupts in one run
MaxEarlyScancodes == 2    \* of them, before ScancodeStream::new has run

\* ArrayQueue::new(100)
QueueCapacity == 100

\* The byte read from port 0x60 by the k-th keyboard interrupt.  Every byte
\* of a run is distinct, so that the order of delivery can be told.
ScancodeOf(k) == k % 256

\* AtomicWaker::wake / AtomicWaker::take on the state machine of WAKER:
\* with a waker stored and no registration in progress the waker is taken
\* out; during a registration only the WAKING flag is set and register
\* itself wakes the task when it completes.
WakerTake ==
    IF wakerState = "WAITING"
      THEN /\ wakerSlot' = "none"
           /\ UNCHANGED wakerState
      ELSE /\ wakerState' = "REGISTERING_WAKING"
           /\ UNCHANGED wakerSlot

WakerWake ==
    /\ WakerTake
    /\ taskWoken' = (taskWoken \/ (wakerState = "WAITING" /\ wakerSlot = "task"))

\* What add_scancode finds: the queue missing, full, or with room
add_scancode_result ==
    IF ~queueInit THEN "uninitialized"
    ELSE IF Len(queue) >= QueueCapacity THEN "full"
    ELSE "pushed"

\* add_scancode calling WAKER.wake() whether or not the push succeeded
add_scancode_always_wakes(scancode) ==
    /\ IF add_scancode_result = "uninitialized"
         THEN UNCHANGED <<queue, wakerSlot, wakerState, taskWoken>>
         ELSE IF add_scancode_result = "full"
           THEN /\ WakerWake
                /\ UNCHANGED queue
           ELSE /\ queue' = Append(queue, scancode)
                /\ WakerWake
    /\ UNCHANGED <<queueInit, streamPc, observed>>

\* add_scancode
add_scancode(scancode) ==
    /\ IF add_scancode_result = "uninitialized"
         THEN \* SCANCODE_QUEUE.try_get() fails: "Scancode queue uninitialized"
              UNCHANGED <<queue, wakerSlot, wakerState, taskWoken>>
         ELSE IF add_scancode_result = "full"
           THEN \* queue.push fails: "Scancode queue full; dropping keyboard input"
                UNCHANGED <<queue, wakerSlot, wakerState, taskWoken>>
           ELSE /\ queue' = Append(queue, scancode)
                /\ WakerWake
    /\ UNCHANGED <<queueInit, streamPc, observed>>

DropRecord(k) == [idx |-> k, init |-> queueInit, len |-> Len(queue)]

\* The keyboard handler as far as the stream is concerned: the k-th byte
\* read from port 0x60 is passed to add_scancode, and a byte that was not
\* enqueued is logged with the state of the queue at that moment
KeyboardHandlerRuns ==
    /\ nPassed < MaxScancodes
    /\ ~queueInit => nPassed < MaxEarlyScancodes
    /\ nPassed' = nPassed + 1
    /\ add_scancode(ScancodeOf(nPassed + 1))
    /\ dropLog' = IF add_scancode_result = "pushed" THEN dropLog
                  ELSE dropLog \cup {DropRecord(nPassed + 1)}

\* ScancodeStream::new, at the first poll of print_keypresses
ScancodeStream_new ==
    /\ streamPc = "unborn"
    /\ queueInit' = TRUE
    /\ queue' = <<>>
    /\ streamPc' = "pop1"
    /\ UNCHANGED <<wakerSlot, wakerState, taskWoken, observed, nPassed, dropLog>>

\* poll_next, fast path: queue.pop()
PollPop1 ==
    /\ streamPc = "pop1"
    /\ IF queue # <<>>
         THEN /\ observed' = Append(observed, Head(queue))
              /\ queue' = Tail(queue)
              /\ streamPc' = "ready"
         ELSE /\ streamPc' = "register"
              /\ UNCHANGED <<queue, observed>>
    /\ UNCHANGED <<queueInit, wakerSlot, wakerState, taskWoken, nPassed, dropLog>>

\* WAKER.register(&cx.waker()), first half: WAITING -> REGISTERING and the
\* waker stored
RegisterBegin ==
    /\ streamPc = "register"
    /\ wakerState = "WAITING"
    /\ wakerState' = "REGISTERING"
    /\ wakerSlot' = "task"
    /\ streamPc' = "registering"
    /\ UNCHANGED <<queueInit, queue, taskWoken, observed, nPassed, dropLog>>

\* WAKER.register, second half: REGISTERING -> WAITING, or, when a wake came
\* in between, the waker taken out again and woken
RegisterEnd ==
    /\ streamPc = "registering"
    /\ IF wakerState = "REGISTERING"
         THEN /\ wakerState' = "WAITING"
              /\ UNCHANGED <<wakerSlot, taskWoken>>
         ELSE /\ wakerState' = "WAITING"
              /\ wakerSlot' = "none"
              /\ taskWoken' = TRUE
    /\ streamPc' = "pop2"
    /\ UNCHANGED <<queueInit, queue, observed, nPassed, dropLog>>

\* poll_next returning Pending after register without popping again
PollPop2_NoSecondPop ==
    /\ streamPc = "pop2"
    /\ streamPc' = "pending"
    /\ UNCHANGED <<queueInit, queue, wakerSlot, wakerState, taskWoken,
                   observed, nPassed, dropLog>>

\* poll_next popping a second time but returning Pending whatever it popped
PollPop2_LosesScancode ==
    /\ streamPc = "pop2"
    /\ IF queue # <<>>
         THEN /\ queue' = Tail(queue)
              /\ WakerTake
         ELSE UNCHANGED <<queue, wakerSlot, wakerState>>
    /\ streamPc' = "pending"
    /\ UNCHANGED <<queueInit, taskWoken, observed, nPassed, dropLog>>

\* poll_next ending the stream, Ready(None), when the second pop finds
\* nothing
PollPop2_ending ==
    /\ streamPc = "pop2"
    /\ IF queue # <<>>
         THEN /\ observed' = Append(observed, Head(queue))
              /\ queue' = Tail(queue)
              /\ WakerTake
              /\ streamPc' = "ready"
         ELSE /\ streamPc' = "ended"
              /\ UNCHANGED <<queue, observed, wakerSlot, wakerState>>
    /\ UNCHANGED <<queueInit, taskWoken, nPassed, dropLog>>

\* poll_next, after register: queue.pop() again; Some: WAKER.take() and
\* Ready, None: Pending
PollPop2 ==
    /\ streamPc = "pop2"
    /\ IF queue # <<>>
         THEN /\ observed' = Append(observed, Head(queue))
              /\ queue' = Tail(queue)
              /\ WakerTake
              /\ streamPc' = "ready"
         ELSE /\ streamPc' = "pending"
              /\ UNCHANGED <<queue, observed, wakerSlot, wakerState>>
    /\ UNCHANGED <<queueInit, taskWoken, nPassed, dropLog>>

\* print_keypresses: the scancode is handed to the decoder and the loop
\* calls scancodes.next() again, within the same poll of the task
NextAfterReady ==
    /\ streamPc = "ready"
    /\ streamPc' = "pop1"
    /\ UNCHANGED <<queueInit, queue, wakerSlot, wakerState, taskWoken,
                   observed, nPassed, dropLog>>

\* Executor::run: a task that returned Pending is polled again once its
\* waker has put its id back on the ready queue
ExecutorPoll ==
    /\ streamPc = "pending"
    /\ taskWoken
    /\ taskWoken' = FALSE
    /\ streamPc' = "pop1"
    /\ UNCHANGED <<queueInit, queue, wakerSlot, wakerState, observed,
                   nPassed, dropLog>>

\* SCANCODE_QUEUE uninitialised, WAKER empty, the task spawned but not polled
KbdInit ==
    /\ queueInit = FALSE
    /\ queue = <<>>
    /\ wakerSlot = "none"
    /\ wakerState = "WAITING"
    /\ taskWoken = FALSE
    /\ streamPc = "unborn"
    /\ observed = <<>>
    /\ nPassed = 0
    /\ dropLog = {}

(***************************************************************************)
(* Interrupt handlers against the code they interrupt.  One processor: a   *)
(* handler is entered only while the interrupt flag is set, runs with the  *)
(* flag cleared and returns with iretq before the interrupted code goes    *)
(* on.  spin::Mutex is one flag per lock; lock() spins while it is set,    *)
(* force_unlock() clears it whoever holds the lock.                        *)
(***************************************************************************)

\* Bound of the sleep model.
MaxSleepMs == 2     \* pit::sleep is also tried with 0..MaxSleepMs milliseconds

\* pit::sleep(Duration::from_secs(1)) in kernel_main
KernelMainSleepMs == 1000

SleepDurations == (0..MaxSleepMs) \cup {KernelMainSleepMs}

\* InterruptIndex::Timer = PIC_1_OFFSET, InterruptIndex::Keyboard the next
PIC_1_OFFSET == 32
InterruptIndex == [Timer |-> PIC_1_OFFSET, Keyboard |-> PIC_1_OFFSET + 1]

\* PICS, SERIAL1, WRITER, TIMER and the LocalApic INSTANCE
LockNames == {"PICS", "SERIAL1", "WRITER", "TIMER", "INSTANCE"}

Lock(l) == locks' = [locks EXCEPT ![l] = TRUE]
Unlock(l) == locks' = [locks EXCEPT ![l] = FALSE]

\* Code outside the handlers runs while no handler does
TaskRuns == irqPc = "none"

\* Mutex::lock() in task-domain code: goes on once the flag is clear
TaskLock(l, from, to) ==
    /\ TaskRuns
    /\ mainPc = from
    /\ ~locks[l]
    /\ Lock(l)
    /\ mainPc' = to

\* the MutexGuard dropped
TaskUnlock(l, from, to) ==
    /\ TaskRuns
    /\ mainPc = from
    /\ Unlock(l)
    /\ mainPc' = to

irqGhost == <<irqVector, irqEntryUptime, irqScancode, portReads, addArgs, eoiLog>>

\* ---- init(), up to interrupts::enable() ----

\* WRITER.lock().set_fb(fb)
BootSetFbLock ==
    /\ TaskLock("WRITER", "boot", "set_fb")
    /\ UNCHANGED <<interruptsEnabled, picsState, localApicExists, uptime,
                   sleepMs, sleepEnd, logLevel, irqPc, irqGhost, kbdVars>>

BootSetFbDone ==
    /\ TaskUnlock("WRITER", "set_fb", "pics_initialize")
    /\ UNCHANGED <<interruptsEnabled, picsState, localApicExists, uptime,
                   sleepMs, sleepEnd, logLevel, irqPc, irqGhost, kbdVars>>

\* PICS.lock().initialize()
BootPicsInitializeLock ==
    /\ TaskLock("PICS", "pics_initialize", "pics_initialize_held")
    /\ UNCHANGED <<interruptsEnabled, picsState, localApicExists, uptime,
                   sleepMs, sleepEnd, logLevel, irqPc, irqGhost, kbdVars>>

BootPicsInitializeDone ==
    /\ TaskUnlock("PICS", "pics_initialize_held", "apic_init")
    /\ picsState' = "initialized"
    /\ UNCHANGED <<interruptsEnabled, localApicExists, uptime,
                   sleepMs, sleepEnd, logLevel, irqPc, irqGhost, kbdVars>>

\* interrupts::apic::init: LocalApic::new stores the instance; the function
\* has no failing path (ApicError has no variant)
BootApicInitLock ==
    /\ TaskLock("INSTANCE", "apic_init", "apic_init_held")
    /\ UNCHANGED <<interruptsEnabled, picsState, localApicExists, uptime,
                   sleepMs, sleepEnd, logLevel, irqPc, irqGhost, kbdVars>>

BootApicInitDone ==
    /\ TaskUnlock("INSTANCE", "apic_init_held", "pics_disable")
    /\ localApicExists' = TRUE
    /\ UNCHANGED <<interruptsEnabled, picsState, uptime,
                   sleepMs, sleepEnd, logLevel, irqPc, irqGhost, kbdVars>>

\* Ok(()): PICS.lock().disable()
BootPicsDisableLock ==
    /\ TaskLock("PICS", "pics_disable", "pics_disable_held")
    /\ UNCHANGED <<interruptsEnabled, picsState, localApicExists, uptime,
                   sleepMs, sleepEnd, logLevel, irqPc, irqGhost, kbdVars>>

BootPicsDisableDone ==
    /\ TaskUnlock("PICS", "pics_disable_held", "enable")
    /\ picsState' = "disabled"
    /\ UNCHANGED <<interruptsEnabled, localApicExists, uptime,
                   sleepMs, sleepEnd, logLevel, irqPc, irqGhost, kbdVars>>

\* x86_64::instructions::interrupts::enable(); from here on the kernel
\* logs, sleeps and runs the keyboard task (mainPc = "run" is the point
\* between two such operations)
BootEnable ==
    /\ TaskRuns
    /\ mainPc = "enable"
    /\ interruptsEnabled' = TRUE
    /\ mainPc' = "run"
    /\ UNCHANGED <<locks, picsState, localApicExists, uptime,
                   sleepMs, sleepEnd, logLevel, irqPc, irqGhost, kbdVars>>

\* ---- logging ----

\* Logger::log, serial_println!: without_interrupts, SERIAL1.force_unlock(),
\* SERIAL1.lock()
LogSerialLock(level) ==
    /\ TaskRuns
    /\ mainPc = "run"
    /\ interruptsEnabled' = FALSE
    /\ Lock("SERIAL1")
    /\ logLevel' = level
    /\ mainPc' = "log_serial_held"
    /\ UNCHANGED <<picsState, localApicExists, uptime,
                   sleepMs, sleepEnd, irqPc, irqGhost, kbdVars>>

\* the guard dropped and the interrupt flag restored; a Trace record is
\* not written to the screen
LogSerialDone ==
    /\ TaskRuns
    /\ mainPc = "log_serial_held"
    /\ Unlock("SERIAL1")
    /\ interruptsEnabled' = TRUE
    /\ mainPc' = IF logLevel = "Trace" THEN "run" ELSE "vga_print"
    /\ UNCHANGED <<picsState, localApicExists, uptime, logLevel,
                   sleepMs, sleepEnd, irqPc, irqGhost, kbdVars>>

\* vga_text_buffer::_print: without_interrupts, WRITER.lock()
VgaPrintLock ==
    /\ TaskLock("WRITER", "vga_print", "vga_print_held")
    /\ interruptsEnabled' = FALSE
    /\ UNCHANGED <<picsState, localApicExists, uptime, logLevel,
                   sleepMs, sleepEnd, irqPc, irqGhost, kbdVars>>

VgaPrintDone ==
    /\ TaskUnlock("WRITER", "vga_print_held", "run")
    /\ interruptsEnabled' = TRUE
    /\ UNCHANGED <<picsState, localApicExists, uptime, logLevel,
                   sleepMs, sleepEnd, irqPc, irqGhost, kbdVars>>

\* ---- pit::sleep ----

\* sleep(s): ms == 0 returns; otherwise get_pit_uptime(): TIMER.lock()
SleepCall(ms) ==
    /\ TaskRuns
    /\ mainPc = "run"
    /\ sleepMs' = ms
    /\ IF ms = 0
         THEN UNCHANGED <<locks, mainPc>>
         ELSE /\ ~locks["TIMER"]
              /\ Lock("TIMER")
              /\ mainPc' = "sleep_end_held"
    /\ UNCHANGED <<interruptsEnabled, picsState, localApicExists, uptime,
                   sleepEnd, logLevel, irqPc, irqGhost, kbdVars>>

\* end = get_pit_uptime() + ms
SleepEndRead ==
    /\ TaskUnlock("TIMER", "sleep_end_held", "sleep_check")
    /\ sleepEnd' = uptime + sleepMs
    /\ UNCHANGED <<interruptsEnabled, picsState, localApicExists, uptime,
                   sleepMs, logLevel, irqPc, irqGhost, kbdVars>>

\* while end != get_pit_uptime(): TIMER.lock()
SleepCheckLock ==
    /\ TaskLock("TIMER", "sleep_check", "sleep_check_held")
    /\ UNCHANGED <<interruptsEnabled, picsState, localApicExists, uptime,
                   sleepMs, sleepEnd, logLevel, irqPc, irqGhost, kbdVars>>

\* ... .read(), the guard dropped, the comparison
SleepCheckRead ==
    /\ TaskUnlock("TIMER", "sleep_check_held",
                  IF sleepEnd # uptime THEN "sleep_hlt" ELSE "run")
    /\ UNCHANGED <<interruptsEnabled, picsState, localApicExists, uptime,
                   sleepMs, sleepEnd, logLevel, irqPc, irqGhost, kbdVars>>

\* hlt(): the processor stops until the next interrupt has been handled
Hlt ==
    /\ TaskRuns
    /\ mainPc = "sleep_hlt"
    /\ mainPc' = "halted"
    /\ UNCHANGED <<locks, interruptsEnabled, picsState, localApicExists, uptime,
                   sleepMs, sleepEnd, logLevel, irqPc, irqGhost, kbdVars>>

\* ---- print_keypresses ----

\* ScancodeStream::new() at the first poll of the task
TaskStreamNew ==
    /\ TaskRuns
    /\ mainPc = "run"
    /\ ScancodeStream_new
    /\ UNCHANGED <<mainPc, locks, interruptsEnabled, picsState, localApicExists,
                   uptime, sleepMs, sleepEnd, logLevel, irqPc, irqGhost>>

\* scancodes.next() yields a byte; the decoder makes of it a backspace
\* (Console::backspace), a printable key (print!) or nothing yet
TaskNextScancode ==
    /\ TaskRuns
    /\ mainPc = "run"
    /\ queueInit
    /\ queue # <<>>
    /\ queue' = Tail(queue)
    /\ mainPc' \in {"backspace", "vga_print", "run"}
    /\ UNCHANGED <<queueInit, wakerSlot, wakerState, taskWoken, streamPc,
                   observed, nPassed, dropLog>>
    /\ UNCHANGED <<locks, interruptsEnabled, picsState, localApicExists,
                   uptime, sleepMs, sleepEnd, logLevel, irqPc, irqGhost>>

\* Console::backspace: WRITER.lock(), interrupts left as they are
BackspaceLock ==
    /\ TaskLock("WRITER", "backspace", "backspace_held")
    /\ UNCHANGED <<interruptsEnabled, picsState, localApicExists, uptime,
                   sleepMs, sleepEnd, logLevel, irqPc, irqGhost, kbdVars>>

\* writer.backspace() and the guard dropped
BackspaceDone ==
    /\ TaskUnlock("WRITER", "backspace_held", "run")
    /\ UNCHANGED <<interruptsEnabled, picsState, localApicExists, uptime,
                   sleepMs, sleepEnd, logLevel, irqPc, irqGhost, kbdVars>>

\* ---- the handlers ----

\* Mutex::lock() in a handler: nobody can clear the flag while the handler
\* runs, so finding it set is spinning forever
HandlerLock(l, from, to) ==
    /\ irqPc = from
    /\ IF locks[l]
         THEN /\ irqPc' = "spin"
              /\ UNCHANGED locks
         ELSE /\ Lock(l)
              /\ irqPc' = to

HandlerUnlock(l, from, to) ==
    /\ irqPc = from
    /\ Unlock(l)
    /\ irqPc' = to

\* The processor takes an interrupt: between two instructions, with the
\* interrupt flag set; the gate clears the flag
TakeInterrupt(vector, to) ==
    /\ irqPc = "none"
    /\ interruptsEnabled
    /\ interruptsEnabled' = FALSE
    /\ irqVector' = vector
    /\ irqEntryUptime' = uptime
    /\ irqPc' = to
    /\ UNCHANGED <<mainPc, locks, picsState, localApicExists, uptime, sleepMs,
                   sleepEnd, logLevel, irqScancode, portReads, addArgs, eoiLog,
                   kbdVars>>

\* timer_interrupt_handler entered: it has nothing to do before its EOI
TimerIrq == TakeInterrupt("Timer", "eoi")

\* keyboard_interrupt_handler entered
KeyboardIrq == TakeInterrupt("Keyboard", "interrupt_begin")

\* interrupt_begin without WRITER.force_unlock()
interrupt_begin_keeps_writer_locked ==
    /\ irqPc = "interrupt_begin"
    /\ irqPc' = "port_read"
    /\ UNCHANGED <<mainPc, locks, interruptsEnabled, picsState, localApicExists,
                   uptime, sleepMs, sleepEnd, logLevel, irqGhost, kbdVars>>

\* interrupt_begin: interrupt_println! (a SerialPort of its own, no lock),
\* WRITER.force_unlock()
interrupt_begin ==
    /\ irqPc = "interrupt_begin"
    /\ Unlock("WRITER")
    /\ irqPc' = "port_read"
    /\ UNCHANGED <<mainPc, interruptsEnabled, picsState, localApicExists,
                   uptime, sleepMs, sleepEnd, logLevel, irqGhost, kbdVars>>

\* let scancode: u8 = port.read() on port 0x60
PortRead ==
    /\ irqPc = "port_read"
    /\ irqScancode' = ScancodeOf(nPassed + 1)
    /\ portReads' = portReads + 1
    /\ irqPc' = "add_scancode"
    /\ UNCHANGED <<mainPc, locks, interruptsEnabled, picsState, localApicExists,
                   uptime, sleepMs, sleepEnd, logLevel, irqVector,
                   irqEntryUptime, addArgs, eoiLog, kbdVars>>

\* add_scancode(scancode); the byte not enqueued, warn! follows
HandlerAddScancode ==
    /\ irqPc = "add_scancode"
    /\ add_scancode(irqScancode)
    /\ addArgs' = Append(addArgs, irqScancode)
    /\ irqPc' = IF add_scancode_result = "pushed" THEN "eoi" ELSE "warn_serial"
    /\ UNCHANGED <<nPassed, dropLog>>
    /\ UNCHANGED <<mainPc, locks, interruptsEnabled, picsState, localApicExists,
                   uptime, sleepMs, sleepEnd, logLevel, irqVector,
                   irqEntryUptime, irqScancode, portReads, eoiLog>>

\* warn!: Logger::log, serial_println!: SERIAL1.force_unlock(), SERIAL1.lock()
WarnSerialLock ==
    /\ irqPc = "warn_serial"
    /\ Lock("SERIAL1")
    /\ irqPc' = "warn_serial_held"
    /\ UNCHANGED <<mainPc, interruptsEnabled, picsState, localApicExists,
                   uptime, sleepMs, sleepEnd, logLevel, irqGhost, kbdVars>>

WarnSerialDone ==
    /\ HandlerUnlock("SERIAL1", "warn_serial_held", "warn_vga")
    /\ UNCHANGED <<mainPc, interruptsEnabled, picsState, localApicExists,
                   uptime, sleepMs, sleepEnd, logLevel, irqGhost, kbdVars>>

\* Logger::log, vga_text_buffer::_print: WRITER.lock()
WarnVgaLock ==
    /\ HandlerLock("WRITER", "warn_vga", "warn_vga_held")
    /\ UNCHANGED <<mainPc, interruptsEnabled, picsState, localApicExists,
                   uptime, sleepMs, sleepEnd, logLevel, irqGhost, kbdVars>>

\* the warning of the full queue returning from the handler at once
WarnVgaDone_returning ==
    /\ HandlerUnlock("WRITER", "warn_vga_held", "iret")
    /\ UNCHANGED <<mainPc, interruptsEnabled, picsState, localApicExists,
                   uptime, sleepMs, sleepEnd, logLevel, irqGhost, kbdVars>>

WarnVgaDone ==
    /\ HandlerUnlock("WRITER", "warn_vga_held", "eoi")
    /\ UNCHANGED <<mainPc, interruptsEnabled, picsState, localApicExists,
                   uptime, sleepMs, sleepEnd, logLevel, irqGhost, kbdVars>>

\* PICS.lock()
EoiLock ==
    /\ HandlerLock("PICS", "eoi", "eoi_held")
    /\ UNCHANGED <<mainPc, interruptsEnabled, picsState, localApicExists,
                   uptime, sleepMs, sleepEnd, logLevel, irqGhost, kbdVars>>

\* .notify_end_of_interrupt(InterruptIndex::Timer | Keyboard) on the
\* chained 8259 PICs, and the guard dropped
NotifyEndOfInterrupt ==
    /\ HandlerUnlock("PICS", "eoi_held", "iret")
    /\ eoiLog' = Append(eoiLog, [controller |-> "LegacyPic",
                                 vector |-> InterruptIndex[irqVector]])
    /\ UNCHANGED <<mainPc, interruptsEnabled, picsState, localApicExists,
                   uptime, sleepMs, sleepEnd, logLevel, irqVector,
                   irqEntryUptime, irqScancode, portReads, addArgs, kbdVars>>

\* The handler returns: iretq sets the interrupt flag again, and a
\* processor that was halted goes on after its hlt
Iret ==
    /\ irqPc = "iret"
    /\ irqPc' = "none"
    /\ interruptsEnabled' = TRUE
    /\ mainPc' = IF mainPc = "halted" THEN "sleep_check" ELSE mainPc
    /\ irqVector' = "none"
    /\ irqEntryUptime' = 0
    /\ irqScancode' = 0
    /\ portReads' = 0
    /\ addArgs' = <<>>
    /\ eoiLog' = <<>>
    /\ UNCHANGED <<locks, picsState, localApicExists, uptime, sleepMs,
                   sleepEnd, logLevel, kbdVars>>

\* kernel_main entered: interrupts off, every lock free, the PICs
\* untouched, no LocalApic yet
IrqInit ==
    /\ mainPc = "boot"
    /\ interruptsEnabled = FALSE
    /\ locks = [l \in LockNames |-> FALSE]
    /\ picsState = "uninitialized"
    /\ localApicExists = FALSE
    /\ uptime = 0
    /\ sleepMs = 0
    /\ sleepEnd = 0
    /\ logLevel = "Trace"
    /\ irqPc = "none"
    /\ irqVector = "none"
    /\ irqEntryUptime = 0
    /\ irqScancode = 0
    /\ portReads = 0
    /\ addArgs = <<>>
    /\ eoiLog = <<>>

(***************************************************************************)
(* NoccioloAcpiHandler: map_physical_region / unmap_physical_region on the *)
(* page table, with virtual pages from the PageAllocator.  Of the page     *)
(* table only the leaf entries are kept; Mapper::map_to fails on a page    *)
(* that is already mapped and Mapper::unmap on a page that is not.         *)
(***************************************************************************)

\* Bound of the mapper model.
MaxAcpiMappings == 2    \* map_physical_region calls in one run

\* Physical addresses and sizes handed to map_physical_region: page-aligned
\* and not, regions ending inside the first page, at its end, and beyond it
AcpiPhysicalAddresses == {4096, 4097, 8191}
AcpiSizes == {1, 4095, 4096, 4097}

\* PhysAddr::align_up(4096)
AlignUp(a) == AlignDown(a + PAGE_SIZE - 1)

\* PageTableFlags::PRESENT | PageTableFlags::WRITABLE
PresentWritable == {"PRESENT", "WRITABLE"}

\* A leaf entry of the page table: virtual page number, frame address, flags
Leaf(page, frame, flags) == [page |-> page, frame |-> frame, flags |-> flags]

MappedPages(table) == {l.page : l \in table}

\* let start = PhysAddr::new(physical_address).align_down(4096)
RegionStart(physical_address) == AlignDown(physical_address)

\* the end of the region taken as start + align_up(size): the offset of
\* physical_address in its page forgotten
RegionEnd_ignoring_offset(physical_address, size) ==
    AlignDown(physical_address) + AlignUp(size)

\* let end = PhysAddr::new(physical_address + size).align_up(4096)
RegionEnd(physical_address, size) == AlignUp(physical_address + size)

\* do_map_region advancing ptr before it takes the frame
RECURSIVE do_map_region_frame_after_increment(_, _, _, _, _)
do_map_region_frame_after_increment(st, ptr, end, virt, flags) ==
    IF ~(ptr < end) \/ ~st.ok THEN st
    ELSE IF virt.page \in MappedPages(st.table)
      THEN [st EXCEPT !.ok = FALSE]
      ELSE do_map_region_frame_after_increment(
             [table |-> st.table \cup {Leaf(virt.page, AlignDown(ptr + PAGE_SIZE), flags)},
              flushed |-> st.flushed \cup {virt.page},
              ok |-> TRUE],
             ptr + PAGE_SIZE, end, VirtAddrAdd(virt, PAGE_SIZE), flags)

\* do_map_region: while ptr < end, map the page at virt to the frame
\* containing ptr (map_to(..).expect(..).flush()), then ptr += 4096,
\* virt += 4096.  st is the page table, the pages flushed and whether every
\* expect() has passed so far
RECURSIVE do_map_region(_, _, _, _, _)
do_map_region(st, ptr, end, virt, flags) ==
    IF ~(ptr < end) \/ ~st.ok THEN st
    ELSE IF virt.page \in MappedPages(st.table)
      THEN [st EXCEPT !.ok = FALSE]
      ELSE do_map_region(
             [table |-> st.table \cup {Leaf(virt.page, AlignDown(ptr), flags)},
              flushed |-> st.flushed \cup {virt.page},
              ok |-> TRUE],
             ptr + PAGE_SIZE, end, VirtAddrAdd(virt, PAGE_SIZE), flags)

\* PhysicalMapping::new(physical_address, virtual_start, size, mapped_length, ..)
PhysicalMapping(physical_start, virtual_start, region_length, mapped_length) ==
    [physical_start |-> physical_start, virtual_start |-> virtual_start,
     region_length |-> region_length, mapped_length |-> mapped_length]

NoMapping == PhysicalMapping(0, VirtAddr(0, 0), 0, 0)

\* What the last call was: its arguments, the mapping it made or dropped,
\* the page table before it and the pages whose TLB entry it flushed
AcpiRecord(op, phys, size, m, before, flushed) ==
    [op |-> op, phys |-> phys, size |-> size, m |-> m, before |-> before,
     flushed |-> flushed]

\* map_physical_region
map_physical_region(physical_address, size) ==
    LET start == RegionStart(physical_address)
        end == RegionEnd(physical_address, size)
        page_count == (end - start) \div 4096
        virt == addr
        st == do_map_region([table |-> pageTable, flushed |-> {}, ok |-> TRUE],
                            start, end, virt, PresentWritable)
        mapped_length == end - start
        virt_offset == physical_address % 4096
        region == PhysicalMapping(physical_address,
                                  VirtAddrAdd(virt, virt_offset),
                                  size, mapped_length)
    IN  /\ ~acpiPanicked
        /\ acpiMapCalls < MaxAcpiMappings
        /\ acpiMapCalls' = acpiMapCalls + 1
        /\ allocate_n(page_count)
        /\ pageTable' = st.table
        /\ IF pagePanicked' \/ ~st.ok
             THEN /\ acpiPanicked' = TRUE
                  /\ UNCHANGED <<acpiMappings, acpiLast, acpiPrev>>
             ELSE /\ acpiMappings' = acpiMappings \cup {region}
                  /\ acpiPrev' = acpiLast
                  /\ acpiLast' = AcpiRecord("map", physical_address, size, region, pageTable, st.flushed)
                  /\ UNCHANGED acpiPanicked

\* the number of pages unmap_physical_region walks taken from region_length
UnmapCount_of_region_length(region) == region.region_length \div 4096

\* let count = region.mapped_length() / 4096
UnmapCount(region) == region.mapped_length \div 4096

\* for _ in 0..count: unmap the page containing virt (expect), flush it,
\* virt += 4096
RECURSIVE UnmapLoop(_, _, _)
UnmapLoop(st, virt, count) ==
    IF count = 0 \/ ~st.ok THEN st
    ELSE IF virt.page \notin MappedPages(st.table)
      THEN [st EXCEPT !.ok = FALSE]
      ELSE UnmapLoop(
             [table |-> {l \in st.table : l.page # virt.page},
              flushed |-> st.flushed \cup {virt.page},
              ok |-> TRUE],
             VirtAddrAdd(virt, PAGE_SIZE), count - 1)

\* unmap_physical_region, called when a PhysicalMapping is dropped
unmap_physical_region(region) ==
    LET st == UnmapLoop([table |-> pageTable, flushed |-> {}, ok |-> TRUE],
                        region.virtual_start, UnmapCount(region))
    IN  /\ ~acpiPanicked
        /\ region \in acpiMappings
        /\ pageTable' = st.table
        /\ acpiMappings' = acpiMappings \ {region}
        /\ acpiPanicked' = ~st.ok
        /\ acpiPrev' = acpiLast
        /\ acpiLast' = AcpiRecord("unmap", 0, 0, region, pageTable, st.flushed)
        /\ UNCHANGED <<acpiMapCalls, pageVars>>

\* One leaf of the kernel's own, next to the allocator's base
KernelLeaf == Leaf(16777215, 0, PresentWritable)

\* the page table as the bootloader left it, no ACPI mapping alive
AcpiInit ==
    /\ pageTable = {KernelLeaf}
    /\ acpiMappings = {}
    /\ acpiMapCalls = 0
    /\ acpiPanicked = FALSE
    /\ acpiLast = AcpiRecord("none", 0, 0, NoMapping, {}, {})
    /\ acpiPrev = AcpiRecord("none", 0, 0, NoMapping, {}, {})

(***************************************************************************)
(* PCI enumeration: DeviceEnumerator::next over a configuration space      *)
(***************************************************************************)

\* Bound of the enumeration model.
MaxExhaustedPciCalls == 2   \* next() calls made after it has returned None

\* while self.bus < 256, while self.device < 32
PciBusCount == 256
PciDeviceCount == 32

\* PciVendorId::INVALID
PciVendorId_INVALID == 65535

\* PciAddress { segment, bus, device, function }
PciAddress(segment, bus, device, function) ==
    [segment |-> segment, bus |-> bus, device |-> device, function |-> function]

\* The slots of which configuration spaces are built: the first and the
\* last device of bus 0, devices of a second and a third bus, the last
\* device of the last bus
PciCandidateSlots == {<<0, 0>>, <<0, 31>>, <<1, 0>>, <<2, 5>>, <<255, 31>>}

\* The vendor and device id a populated slot answers with
PciIdsOf(slot) ==
    [vendor |-> IF slot[1] = 0 THEN 32902 ELSE 4660,
     device |-> 4096 + slot[1] * 32 + slot[2]]

\* mechanism.vendor_id(addr): read_word(addr, 0x0); an empty slot reads
\* as all ones
vendor_id(pci_addr) ==
    IF <<pci_addr.bus, pci_addr.device>> \in pciConfig /\ pci_addr.function = 0 /\ pci_addr.segment = 0
      THEN PciIdsOf(<<pci_addr.bus, pci_addr.device>>).vendor
      ELSE PciVendorId_INVALID

\* mechanism.device_id(addr): read_word(addr, 0x2)
device_id(pci_addr) ==
    IF <<pci_addr.bus, pci_addr.device>> \in pciConfig /\ pci_addr.function = 0 /\ pci_addr.segment = 0
      THEN PciIdsOf(<<pci_addr.bus, pci_addr.device>>).device
      ELSE 65535

\* The inner loop, `while self.device < 32`, on one bus from device d on: it
\* probes d, d+1, ... and stops behind the first populated slot, or at 32
ScanBus(bus, d) ==
    LET hits == {x \in d..(PciDeviceCount - 1) :
                    vendor_id(PciAddress(0, bus, x, 0)) # PciVendorId_INVALID}
    IN  IF hits = {}
          THEN [found |-> FALSE,
                device |-> IF d < PciDeviceCount THEN PciDeviceCount ELSE d,
                probed |-> {<<bus, x>> : x \in d..(PciDeviceCount - 1)}]
          ELSE LET x == CHOOSE h \in hits : \A g \in hits : h <= g
               IN  [found |-> TRUE, device |-> x + 1,
                    probed |-> {<<bus, y>> : y \in d..x}]

\* DeviceEnumerator::next: `while self.bus < 256 { while self.device < 32
\* {..}; self.bus += 1 }`.  self.device is left as it is when self.bus is
\* incremented, so the buses after the current one are scanned from the
\* device the current bus ended on.  st carries self.bus, self.device and
\* the slots probed
DeviceEnumerator_next(st) ==
    IF ~(st.bus < PciBusCount) THEN [st EXCEPT !.item = None]
    ELSE
      LET here == ScanBus(st.bus, st.device)
          later == {b \in (st.bus + 1)..(PciBusCount - 1) :
                       ScanBus(b, here.device).found}
          Item(bus, device) ==
              LET a == PciAddress(0, bus, device, 0)
              IN  Some([addr |-> a, vendor_id |-> vendor_id(a),
                        device_id |-> device_id(a)])
      IN  IF here.found
            THEN [bus |-> st.bus, device |-> here.device,
                  probed |-> st.probed \cup here.probed,
                  item |-> Item(st.bus, here.device - 1)]
          ELSE IF later = {}
            THEN [bus |-> PciBusCount, device |-> here.device,
                  probed |-> st.probed \cup here.probed
                               \cup UNION {ScanBus(b, here.device).probed :
                                             b \in (st.bus + 1)..(PciBusCount - 1)},
                  item |-> None]
            ELSE LET b == CHOOSE x \in later : \A y \in later : x <= y
                     there == ScanBus(b, here.device)
                 IN  [bus |-> b, device |-> there.device,
                      probed |-> st.probed \cup here.probed \cup there.probed
                                   \cup UNION {ScanBus(c, here.device).probed :
                                                 c \in (st.bus + 1)..(b - 1)},
                      item |-> Item(b, there.device - 1)]

\* init_using: one turn of `for (addr, vendor_id, device_id) in
\* mechanism.enumerate()`
EnumerateNext ==
    LET st == DeviceEnumerator_next([bus |-> enumBus, device |-> enumDevice,
                                     probed |-> pciProbed, item |-> None])
    IN  /\ pciExhaustedCalls < MaxExhaustedPciCalls
        /\ enumBus' = st.bus
        /\ enumDevice' = st.device
        /\ pciProbed' = st.probed
        /\ IF st.item = None
             THEN /\ pciExhaustedCalls' = pciExhaustedCalls + 1
                  /\ UNCHANGED pciYielded
             ELSE /\ pciYielded' = Append(pciYielded, st.item[1])
                  /\ UNCHANGED pciExhaustedCalls
        /\ UNCHANGED pciConfig

\* enumerate(): DeviceEnumerator { mechanism, device: 0, bus: 0 } over some
\* configuration space
PciInit ==
    /\ pciConfig \in SUBSET PciCandidateSlots
    /\ enumBus = 0
    /\ enumDevice = 0
    /\ pciProbed = {}
    /\ pciYielded = <<>>
    /\ pciExhaustedCalls = 0

\* no PCI bus looked at
PciIdle ==
    /\ pciConfig = {}
    /\ enumBus = 0
    /\ enumDevice = 0
    /\ pciProbed = {}
    /\ pciYielded = <<>>
    /\ pciExhaustedCalls = 0

(***************************************************************************)
(* System::request_shutdown: the hypervisor fast paths and the ACPI S5     *)
(* sequence (_PTS, \_S5_, the PM1 control blocks, _WAK on failure).  The   *)
(* AML interpreter and the FADT are the platform's: what they answer is    *)
(* fixed at boot and drawn from small sets.                                *)
(***************************************************************************)

ACPI_SLP_EN == 8192
U16_MAX == 65535

\* a | b on words of the given number of bits
RECURSIVE BitOr(_, _, _)
BitOr(a, b, bits) ==
    IF bits = 0 THEN 0
    ELSE (IF a % 2 = 1 \/ b % 2 = 1 THEN 1 ELSE 0)
         + 2 * BitOr(a \div 2, b \div 2, bits - 1)

\* what CpuId::get_processor_brand_string can answer
BrandStrings ==
    {None, Some("TCGTCGTCGTCG"), Some("QEMU Virtual CPU version 2.5+"),
     Some("VMwareVMware"), Some("VBoxVBoxVBox"), Some("Intel(R) Core(TM)")}

detect_hypervisor(cpu) ==
    IF cpu = None THEN None
    ELSE IF cpu[1] = "TCGTCGTCGTCG" THEN Some("QemuOld")
    ELSE IF cpu[1] = "QEMU Virtual CPU version 2.5+" THEN Some("QemuNew")
    ELSE IF cpu[1] = "VMwareVMware" THEN Some("VMWare")
    ELSE IF cpu[1] = "VBoxVBoxVBox" THEN Some("VMWare")
    ELSE None

PortWrite(port, value) == [port |-> port, value |-> value]

\* the arms of request_shutdown's match that write a magic word; None for
\* the arm that goes on to shutdown_using_acpi
HypervisorShutdownWrite(kind) ==
    IF kind = Some("Bochs") THEN Some(PortWrite(45060, 8192))
    ELSE IF kind = Some("QemuOld") THEN Some(PortWrite(1540, 8192))
    ELSE IF kind = Some("VirtualBox") THEN Some(PortWrite(16388, 13312))
    ELSE None

\* AmlValue, as far as the shutdown path tells its variants apart
AmlInteger(n) == [kind |-> "Integer", value |-> n, elems |-> <<>>]
AmlString == [kind |-> "String", value |-> 0, elems |-> <<>>]
AmlPackage(elems) == [kind |-> "Package", value |-> 0, elems |-> elems]

\* what the namespace can hold at \_S5_ (None: the path does not exist)
S5Values ==
    {None,
     Some(AmlInteger(5)),
     Some(AmlPackage(<<>>)),
     Some(AmlPackage(<<AmlInteger(5)>>)),
     Some(AmlPackage(<<AmlInteger(0), AmlInteger(0)>>)),
     Some(AmlPackage(<<AmlInteger(5), AmlInteger(0)>>)),
     Some(AmlPackage(<<AmlInteger(5), AmlInteger(5)>>)),
     Some(AmlPackage(<<AmlInteger(8197), AmlInteger(7)>>)),
     Some(AmlPackage(<<AmlString, AmlInteger(5)>>)),
     Some(AmlPackage(<<AmlInteger(5), AmlString>>)),
     Some(AmlPackage(<<AmlInteger(65536), AmlInteger(5)>>))}

\* how the platform answers _PTS(5)
PtsOutcomes == {"Ok", "ValueDoesNotExist(\\_PTS)", "ValueDoesNotExist(\\_SB_)", "Other"}

GenericAddress(address_space, address) ==
    [address_space |-> address_space, address |-> address]

\* Fadt::pm1a_control_block: Result<GenericAddress, AcpiError>
Pm1aBlocks ==
    {[err |-> TRUE, block |-> None],
     [err |-> FALSE, block |-> Some(GenericAddress("SystemIo", 1540))],
     [err |-> FALSE, block |-> Some(GenericAddress("SystemMemory", 1540))],
     [err |-> FALSE, block |-> Some(GenericAddress("SystemIo", 65536))]}

\* Fadt::pm1b_control_block: Result<Option<GenericAddress>, AcpiError>
Pm1bBlocks ==
    {[err |-> TRUE, block |-> None],
     [err |-> FALSE, block |-> None],
     [err |-> FALSE, block |-> Some(GenericAddress("SystemIo", 1544))],
     [err |-> FALSE, block |-> Some(GenericAddress("SystemMemory", 1544))]}

\* AcpiData as the shutdown path reads it: aml and fadt are Some or None
AcpiDatas ==
    [aml : BOOLEAN, fadt : BOOLEAN, pts : PtsOutcomes, s5 : S5Values,
     pm1a : Pm1aBlocks, pm1b : Pm1bBlocks]

\* the outcome of a function of the sequence: err is the Err it returns if
\* any, writes the port writes it made, panic an index out of bounds
SdOutcome(err, writes, panic) == [err |-> err, writes |-> writes, panic |-> panic]

\* perform_acpi_sleep without the check of the address against u16::MAX
perform_acpi_sleep_without_range_check(s5_value, control_block) ==
    IF s5_value.kind # "Integer"
      THEN SdOutcome(Some("S5ValueNotInteger"), <<>>, FALSE)
    ELSE IF s5_value.value > U16_MAX
      THEN SdOutcome(Some("S5ValueOutsideWordSize"), <<>>, FALSE)
    ELSE IF control_block.address_space # "SystemIo"
      THEN SdOutcome(Some("PmControlBlockNotInSystemIoSpace"), <<>>, FALSE)
    ELSE SdOutcome(None,
                   <<PortWrite(control_block.address % 65536,
                               BitOr(ACPI_SLP_EN, s5_value.value, 16))>>,
                   FALSE)

perform_acpi_sleep(s5_value, control_block) ==
    IF s5_value.kind # "Integer"
      THEN SdOutcome(Some("S5ValueNotInteger"), <<>>, FALSE)
    ELSE IF s5_value.value > U16_MAX
      THEN SdOutcome(Some("S5ValueOutsideWordSize"), <<>>, FALSE)
    ELSE IF control_block.address_space # "SystemIo"
      THEN SdOutcome(Some("PmControlBlockNotInSystemIoSpace"), <<>>, FALSE)
    ELSE IF control_block.address > U16_MAX
      THEN SdOutcome(Some("PmControlAddressNotInIoPortRange"), <<>>, FALSE)
    ELSE SdOutcome(None,
                   <<PortWrite(control_block.address,
                               BitOr(ACPI_SLP_EN, s5_value.value, 16))>>,
                   FALSE)

\* the second half of do_shutdown_using_acpi: the PM1b block, if there is one
do_shutdown_pm1b(acpi, s5_pkg, first) ==
    IF acpi.pm1b.err THEN SdOutcome(Some("Acpi"), first.writes, FALSE)
    ELSE IF acpi.pm1b.block = None THEN first
    ELSE IF Len(s5_pkg) < 2 THEN SdOutcome(None, first.writes, TRUE)
    ELSE LET second == perform_acpi_sleep(s5_pkg[2], acpi.pm1b.block[1])
         IN SdOutcome(second.err, first.writes \o second.writes, FALSE)

do_shutdown_using_acpi(acpi) ==
    IF ~acpi.aml THEN SdOutcome(Some("NoAml"), <<>>, FALSE)
    ELSE IF ~acpi.fadt THEN SdOutcome(Some("NoFadt"), <<>>, FALSE)
    ELSE IF acpi.s5 = None THEN SdOutcome(Some("Aml"), <<>>, FALSE)
    ELSE IF acpi.s5[1].kind # "Package"
      THEN SdOutcome(Some("S5PathNotPackage"), <<>>, FALSE)
    ELSE IF acpi.pm1a.err THEN SdOutcome(Some("Acpi"), <<>>, FALSE)
    ELSE LET s5_pkg == acpi.s5[1].elems
         IN IF Len(s5_pkg) < 1 THEN SdOutcome(None, <<>>, TRUE)
            ELSE LET first == perform_acpi_sleep(s5_pkg[1], acpi.pm1a.block[1])
                 IN IF first.err # None THEN first
                    ELSE do_shutdown_pm1b(acpi, s5_pkg, first)

AmlCall(method, arg) == [method |-> method, arg |-> arg]

\* before_acpi_shutdown with every Err of _PTS returned
before_acpi_shutdown_strict(acpi) ==
    IF ~acpi.aml THEN None
    ELSE IF acpi.pts = "Ok" THEN None
    ELSE Some("Aml")

\* before_acpi_shutdown: the Err it returns, if any
before_acpi_shutdown(acpi) ==
    IF ~acpi.aml THEN None
    ELSE IF acpi.pts = "Ok" THEN None
    ELSE IF acpi.pts = "ValueDoesNotExist(\\_PTS)" THEN None
    ELSE Some("Aml")

\* recover_acpi_shutdown: the AML methods it invokes.  ACPI_DATA is free
\* when it runs, the guards of the functions before it being dropped.
recover_acpi_shutdown_without_wake(acpi) ==
    <<>>

recover_acpi_shutdown(acpi) ==
    IF ~acpi.aml THEN <<>>
    ELSE <<AmlCall("\\_WAK", 5)>>

\* request_shutdown, line 19: let hypervisor = Self::detect_hypervisor()
RequestShutdownDetect ==
    /\ sdPc = "call"
    /\ hypervisor' = detect_hypervisor(cpuBrand)
    /\ sdPc' = "match"
    /\ UNCHANGED <<cpuBrand, acpiData, sdPortWrites, amlCalls, sdError, acpiEntered>>

\* the arms for Bochs, QemuOld and VirtualBox: one port write, then return
RequestShutdownFastPath ==
    /\ sdPc = "match"
    /\ HypervisorShutdownWrite(hypervisor) # None
    /\ sdPortWrites' = Append(sdPortWrites, HypervisorShutdownWrite(hypervisor)[1])
    /\ sdPc' = "returned"
    /\ UNCHANGED <<cpuBrand, acpiData, hypervisor, amlCalls, sdError, acpiEntered>>

\* the last arm: shutdown_using_acpi up to the end of before_acpi_shutdown
BeforeAcpiShutdown ==
    /\ sdPc = "match"
    /\ HypervisorShutdownWrite(hypervisor) = None
    /\ acpiEntered' = TRUE
    /\ amlCalls' = IF acpiData.aml THEN Append(amlCalls, AmlCall("\\_PTS", 5))
                                   ELSE amlCalls
    /\ sdError' = before_acpi_shutdown(acpiData)
    /\ sdPc' = IF before_acpi_shutdown(acpiData) = None THEN "do" ELSE "recover"
    /\ UNCHANGED <<cpuBrand, acpiData, hypervisor, sdPortWrites>>

\* do_shutdown_using_acpi; the platform may power off at a write of SLP_EN,
\* and then nothing of the kernel runs any more
DoShutdownUsingAcpi ==
    /\ sdPc = "do"
    /\ LET out == do_shutdown_using_acpi(acpiData)
       IN \/ /\ sdPortWrites' = sdPortWrites \o out.writes
             /\ sdError' = out.err
             /\ sdPc' = IF out.panic THEN "panicked"
                        ELSE IF out.err = None THEN "expect"
                        ELSE "recover"
          \/ \E n \in 1..Len(out.writes) :
                /\ sdPortWrites' = sdPortWrites \o SubSeq(out.writes, 1, n)
                /\ sdError' = None
                /\ sdPc' = "off"
    /\ UNCHANGED <<cpuBrand, acpiData, hypervisor, amlCalls, acpiEntered>>

RecoverAcpiShutdown ==
    /\ sdPc = "recover"
    /\ amlCalls' = amlCalls \o recover_acpi_shutdown(acpiData)
    /\ sdPc' = "expect"
    /\ UNCHANGED <<cpuBrand, acpiData, hypervisor, sdPortWrites, sdError, acpiEntered>>

\* shutdown_using_acpi().expect("Failed to shutdown using ACPI"): an Err
\* panics, and the panic handler ends in hlt_loop()
RequestShutdownExpect ==
    /\ sdPc = "expect"
    /\ sdPc' = IF sdError = None THEN "returned" ELSE "panicked"
    /\ UNCHANGED <<cpuBrand, acpiData, hypervisor, sdPortWrites, amlCalls,
                   sdError, acpiEntered>>

\* kernel_main is about to call System::request_shutdown() on some platform
ShutdownInit ==
    /\ cpuBrand \in BrandStrings
    /\ acpiData \in AcpiDatas
    /\ sdPc = "call"
    /\ hypervisor = None
    /\ sdPortWrites = <<>>
    /\ amlCalls = <<>>
    /\ sdError = None
    /\ acpiEntered = FALSE

\* request_shutdown is not called
ShutdownIdle ==
    /\ cpuBrand = None
    /\ acpiData = [aml |-> FALSE, fadt |-> FALSE, pts |-> "Ok", s5 |-> None,
                   pm1a |-> [err |-> TRUE, block |-> None],
                   pm1b |-> [err |-> TRUE, block |-> None]]
    /\ sdPc = "idle"
    /\ hypervisor = None
    /\ sdPortWrites = <<>>
    /\ amlCalls = <<>>
    /\ sdError = None
    /\ acpiEntered = FALSE

(***************************************************************************)
(* IOApic::initialize on the redirection table.  An entry is a pair of     *)
(* 32-bit registers; the high register is kept as its low 24 bits and its  *)
(* top byte, a 32-bit word with bit 31 set exceeding TLC's integers.       *)
(***************************************************************************)

MaxRedirectionEntries == 4

Unmasked == 0
Masked == 1

Physical == 0
Logical == 1

\* the registers 0x10 + 2n and 0x11 + 2n of one entry
RedirectionRegisters(lo, hi_low, hi_dest) ==
    [lo |-> lo, hi_low |-> hi_low, hi_dest |-> hi_dest]

\* what an entry's registers can hold before initialize runs: masked at
\* vector 0 as after reset; unmasked at the keyboard's vector; masked,
\* LowestPriority, Logical, LowActive, LevelSensitive with destination 0xFF
\* and reserved bits set; unmasked, Physical with destination 0xF3
InitialRegisters ==
    {RedirectionRegisters(65536, 0, 0),
     RedirectionRegisters(33, 0, 0),
     RedirectionRegisters(85 + 256 + 2048 + 8192 + 32768 + 65536 + 131072, 7, 255),
     RedirectionRegisters(40 + 8192, 0, 243)}

RedirectionTables ==
    UNION {[0..(n - 1) -> InitialRegisters] : n \in 3..MaxRedirectionEntries}

DestinationField_new(mode, value) ==
    IF mode = Physical
      THEN [kind |-> "PhysicalApicId", val |-> value % 16]
      ELSE [kind |-> "LogicalSetOfProcessors", val |-> value]

IOApicRedirectionEntry(vector, delivery_mode, destination_mode, delivery_status, polarity, remote_irr, trigger_mode, mask, destination) ==
    [vector |-> vector, delivery_mode |-> delivery_mode,
     destination_mode |-> destination_mode, delivery_status |-> delivery_status,
     polarity |-> polarity, remote_irr |-> remote_irr,
     trigger_mode |-> trigger_mode, mask |-> mask, destination |-> destination]

read_entry(regs, index) ==
    LET lo == regs[index].lo
        destination_mode == (lo \div 2048) % 2
    IN IOApicRedirectionEntry(lo % 256,
                              (lo \div 256) % 8,
                              destination_mode,
                              (lo \div 4096) % 2,
                              (lo \div 8192) % 2,
                              (lo \div 16384) % 2,
                              (lo \div 32768) % 2,
                              (lo \div 65536) % 2,
                              DestinationField_new(destination_mode, regs[index].hi_dest))

\* the fields do not overlap, so that or-ing them is adding them
write_entry_without_polarity(regs, index, entry) ==
    [regs EXCEPT ![index] =
        RedirectionRegisters(entry.vector
                             + entry.delivery_mode * 256
                             + entry.destination_mode * 2048
                             + entry.delivery_status * 4096
                             + entry.remote_irr * 16384
                             + entry.trigger_mode * 32768
                             + entry.mask * 65536,
                             0,
                             entry.destination.val)]

write_entry(regs, index, entry) ==
    [regs EXCEPT ![index] =
        RedirectionRegisters(entry.vector
                             + entry.delivery_mode * 256
                             + entry.destination_mode * 2048
                             + entry.delivery_status * 4096
                             + entry.polarity * 8192
                             + entry.remote_irr * 16384
                             + entry.trigger_mode * 32768
                             + entry.mask * 65536,
                             0,
                             entry.destination.val)]

map_keeping_the_mask(regs, index, vector) ==
    write_entry(regs, index, [read_entry(regs, index) EXCEPT !.vector = vector])

map(regs, index, vector) ==
    write_entry(regs, index,
                [read_entry(regs, index) EXCEPT !.mask = Unmasked, !.vector = vector])

\* one iteration of the loop of map_all_to_spurious_vectors
map_all_to_spurious_vectors_step(regs, index) ==
    LET entry == read_entry(regs, index)
    IN IF entry.mask = Unmasked THEN regs
       ELSE write_entry(regs, index,
                        [entry EXCEPT !.vector = (100 + index) % 256,
                                      !.mask = Unmasked])

\* initialize, line 91: self.map(2, InterruptIndex::Timer)
IOApicInitializeMap ==
    /\ ioPc = "initialize"
    /\ ioRegs' = map(ioRegs, 2, InterruptIndex.Timer)
    /\ ioIndex' = 0
    /\ ioPc' = "map_all_to_spurious_vectors"
    /\ UNCHANGED <<ioInitialRegs, redirection_entry_count, ioEntry>>

MapAllToSpuriousVectorsStep ==
    /\ ioPc = "map_all_to_spurious_vectors"
    /\ ioIndex < redirection_entry_count
    /\ ioRegs' = map_all_to_spurious_vectors_step(ioRegs, ioIndex)
    /\ ioIndex' = ioIndex + 1
    /\ UNCHANGED <<ioInitialRegs, redirection_entry_count, ioEntry, ioPc>>

IOApicInitializeReturn ==
    /\ ioPc = "map_all_to_spurious_vectors"
    /\ ioIndex = redirection_entry_count
    /\ ioPc' = "initialized"
    /\ UNCHANGED <<ioRegs, ioInitialRegs, redirection_entry_count, ioIndex, ioEntry>>

\* IOApic::new has read the entry count; initialize is about to run
IOApicInit ==
    /\ ioInitialRegs \in RedirectionTables
    /\ ioRegs = ioInitialRegs
    /\ redirection_entry_count = Cardinality(DOMAIN ioInitialRegs)
    /\ ioIndex = 0
    /\ ioEntry = None
    /\ ioPc = "initialize"

\* no I/O APIC looked at
IOApicIdle ==
    /\ ioInitialRegs = <<>>
    /\ ioRegs = <<>>
    /\ redirection_entry_count = 0
    /\ ioIndex = 0
    /\ ioEntry = None
    /\ ioPc = "idle"

\* the values of the type IOApicRedirectionEntry a caller can hand to
\* write_entry: the enums and remote_irr by their bit, the destination any
\* variant of DestinationField whatever the destination mode
EntryValues ==
    {IOApicRedirectionEntry(vector, delivery_mode, destination_mode, delivery_status, polarity, remote_irr, trigger_mode, mask, destination) :
        vector \in {0, 255}, delivery_mode \in {0, 5},
        destination_mode \in {Physical, Logical}, delivery_status \in {0, 1},
        polarity \in {0, 1}, remote_irr \in {0, 1}, trigger_mode \in {0, 1},
        mask \in {Unmasked, Masked},
        destination \in {[kind |-> "PhysicalApicId", val |-> 3],
                         [kind |-> "PhysicalApicId", val |-> 19],
                         [kind |-> "LogicalSetOfProcessors", val |-> 3],
                         [kind |-> "LogicalSetOfProcessors", val |-> 255]}}

\* a call of write_entry(index, entry) on an initialised IOApic
WriteEntry(index, entry) ==
    /\ ioPc = "write_entry"
    /\ index < redirection_entry_count
    /\ ioRegs' = write_entry(ioRegs, index, entry)
    /\ ioIndex' = index
    /\ ioEntry' = Some(entry)
    /\ ioPc' = "written"
    /\ UNCHANGED <<ioInitialRegs, redirection_entry_count>>

\* an IOApic of three entries on which write_entry is about to be called
IOApicEntryInit ==
    /\ ioInitialRegs \in [0..2 -> {RedirectionRegisters(65536, 0, 0),
                                   RedirectionRegisters(40 + 8192, 7, 243)}]
    /\ ioRegs = ioInitialRegs
    /\ redirection_entry_count = 3
    /\ ioIndex = 0
    /\ ioEntry = None
    /\ ioPc = "write_entry"

(***************************************************************************)
(* LocalApic: register accesses through the mapped block.  The block is    *)
(* mapped at the page of the APIC base; an access is described by its byte *)
(* offset from mapping.virtual_start, which may be negative.               *)
(***************************************************************************)

\* LocalApicRegister as usize
LocalApicRegister ==
    [Id |-> 32, Version |-> 48, TaskPriority |-> 128, ArbitrationPriority |-> 144,
     ProcessorPriority |-> 160, EndOfInterrupt |-> 176, RemoteRead |-> 192,
     LogicalDestination |-> 208, DestinationFormat |-> 224,
     SpuriousInterruptVector |-> 240, ErrorStatus |-> 640,
     LvtCorrectedMachineCheckInterrupt |-> 752, InterruptCommand1 |-> 768,
     InterruptCommand2 |-> 784, LvtTimer |-> 800, LvtLint0 |-> 848,
     LvtLint1 |-> 864, LvtError |-> 880, InitialCount |-> 896,
     CurrentCount |-> 912, DivideConfiguration |-> 992]

LocalApicRegisters == DOMAIN LocalApicRegister

permissions_with_readable_eoi(register) ==
    IF register \in {"Id", "Version", "ArbitrationPriority", "ProcessorPriority",
                     "RemoteRead", "ErrorStatus", "CurrentCount", "EndOfInterrupt"}
      THEN "ReadOnly"
    ELSE "ReadWrite"

permissions(register) ==
    IF register \in {"Id", "Version", "ArbitrationPriority", "ProcessorPriority",
                     "RemoteRead", "ErrorStatus", "CurrentCount"}
      THEN "ReadOnly"
    ELSE IF register = "EndOfInterrupt" THEN "WriteOnly"
    ELSE "ReadWrite"

is_readable(register) == permissions(register) \in {"ReadOnly", "ReadWrite"}
is_writable(register) == permissions(register) \in {"WriteOnly", "ReadWrite"}

\* the bits of a physical APIC base within its page: 0x900 when the base is
\* the value of the IA32_APIC_BASE MSR (enable and BSP flags set), 0 when it
\* is the address of a MADT LocalApicAddressOverride entry
ApicBaseOffsets == {2304, 0}

\* mapping.mapped_length() of map_physical_region(addr, 0x800)
LapicMappedLength(base_offset) == AlignUp(base_offset + 2048)

\* offset_to_addr, as a byte offset from mapping.virtual_start
offset_to_addr(offset) == offset - 2304

register_to_addr(register) == offset_to_addr(LocalApicRegister[register])

\* the discriminants of InterruptIndex::SpuriousLocalApic and LvtError
SpuriousLocalApicVectors == {34, 255}
LvtErrorVectors == {35, 254}

LocalVectorTableRegister(vector, is_masked, timer_mode) ==
    [vector |-> vector, delivery_mode |-> 0, delivery_status |-> 0,
     is_low_triggered |-> 0, is_remote_irr |-> 0, trigger_mode |-> 0,
     is_masked |-> is_masked, timer_mode |-> timer_mode]

OneShot == 0
Periodic == 1

\* LocalVectorTableRegister::new and new_timer; is_masked as its bit
LocalVectorTableRegister_new(vector, is_masked) ==
    LocalVectorTableRegister(vector, IF is_masked THEN 1 ELSE 0, OneShot)

LocalVectorTableRegister_new_timer(vector, is_masked, mode) ==
    LocalVectorTableRegister(vector, IF is_masked THEN 1 ELSE 0, mode)

as_u32(lvt) ==
    (lvt.vector % 256)
    + (lvt.delivery_mode % 8) * 256
    + (lvt.delivery_status % 2) * 4096
    + (lvt.is_low_triggered % 2) * 8192
    + (lvt.is_remote_irr % 2) * 16384
    + (lvt.trigger_mode % 2) * 32768
    + (lvt.is_masked % 2) * 65536
    + (lvt.timer_mode % 4) * 131072

from_u32(value) ==
    [vector |-> value % 256, delivery_mode |-> (value \div 256) % 8,
     delivery_status |-> (value \div 4096) % 2,
     is_low_triggered |-> (value \div 8192) % 2,
     is_remote_irr |-> (value \div 16384) % 2,
     trigger_mode |-> (value \div 32768) % 2,
     is_masked |-> (value \div 65536) % 2,
     timer_mode |-> (value \div 131072) % 2]

LapicAccess(kind, register, value) ==
    [kind |-> kind, register |-> register, value |-> value,
     target |-> register_to_addr(register)]

\* the access lands in the block's pages: on the register at that offset of
\* the APIC page
Lands(access) == lapicBaseOffset + access.target >= 0

\* the state of the LocalApic object and of the hardware behind it
LapicState(regs, log, panicked, stray) ==
    [regs |-> regs, log |-> log, panicked |-> panicked, stray |-> stray]

\* LocalApic::read and LocalApic::write on a state
lapic_access(st, kind, register, value) ==
    IF st.panicked THEN st
    ELSE IF kind = "read" /\ ~is_readable(register)
      THEN [st EXCEPT !.panicked = TRUE]
    ELSE IF kind = "write" /\ ~is_writable(register)
      THEN [st EXCEPT !.panicked = TRUE]
    ELSE LET access == LapicAccess(kind, register, value)
         IN IF ~Lands(access)
              THEN [st EXCEPT !.log = @ \cup {access}, !.stray = TRUE]
            ELSE IF kind = "write"
              THEN [st EXCEPT !.log = @ \cup {access}, !.regs[register] = value]
            ELSE [st EXCEPT !.log = @ \cup {access}]

RECURSIVE lapic_accesses(_, _)
lapic_accesses(st, accesses) ==
    IF accesses = <<>> THEN st
    ELSE lapic_accesses(lapic_access(st, accesses[1][1], accesses[1][2], accesses[1][3]),
                        Tail(accesses))

\* the accesses of LocalApic::initialize, in order
initialize_accesses ==
    <<<<"write", "SpuriousInterruptVector", 255>>,
      <<"write", "LvtTimer",
        as_u32(LocalVectorTableRegister_new_timer(InterruptIndex.Timer, FALSE, Periodic))>>,
      <<"write", "LvtLint0", as_u32(LocalVectorTableRegister_new(spuriousLocalApic, FALSE))>>,
      <<"write", "LvtLint1", as_u32(LocalVectorTableRegister_new(spuriousLocalApic, FALSE))>>,
      <<"write", "LvtError", as_u32(LocalVectorTableRegister_new(lvtErrorVector, FALSE))>>,
      <<"write", "InitialCount", 0>>,
      <<"read", "CurrentCount", 0>>,
      <<"write", "DivideConfiguration", 3>>>>

\* the accesses of the other operations
LapicOperations ==
    [id |-> <<<<"read", "Id", 0>>>>,
     version |-> <<<<"read", "Version", 0>>>>,
     current_count |-> <<<<"read", "CurrentCount", 0>>>>,
     set_timer_initial_counter |-> <<<<"write", "InitialCount", 1000>>>>,
     stop_timer |-> <<<<"write", "LvtTimer",
                        as_u32(LocalVectorTableRegister_new_timer(0, TRUE, Periodic))>>>>,
     error_status |-> <<<<"read", "LvtTimer", 0>>, <<"read", "LvtError", 0>>,
                        <<"read", "LvtLint0", 0>>, <<"read", "LvtLint1", 0>>,
                        <<"read", "ErrorStatus", 0>>>>,
     end_of_interrupt |-> <<<<"write", "EndOfInterrupt", 0>>>>]

LapicNow == LapicState(lapicRegs, lapicLog, lapicPanicked, lapicStray)

LapicRun(accesses, pc) ==
    LET st == lapic_accesses(LapicNow, accesses)
    IN /\ lapicRegs' = st.regs
       /\ lapicLog' = st.log
       /\ lapicPanicked' = st.panicked
       /\ lapicStray' = st.stray
       /\ lapicPc' = IF st.panicked THEN "panicked" ELSE pc
       /\ UNCHANGED <<lapicBaseOffset, spuriousLocalApic, lvtErrorVector>>

LocalApicInitialize ==
    /\ lapicPc = "new"
    /\ LapicRun(initialize_accesses, "initialized")

LocalApicOperation(op) ==
    /\ lapicPc = "initialized"
    /\ LapicRun(LapicOperations[op], "initialized")

\* an access that left the block hit a page that is not mapped: the page
\* fault handler halts
LapicPageFault ==
    /\ lapicPc = "initialized"
    /\ lapicStray
    /\ lapicPc' = "halted"
    /\ UNCHANGED <<lapicRegs, lapicLog, lapicPanicked, lapicStray, lapicBaseOffset,
                   spuriousLocalApic, lvtErrorVector>>

\* LocalApic::from_addr has mapped the block; no register written yet
LapicInit ==
    /\ lapicBaseOffset \in ApicBaseOffsets
    /\ spuriousLocalApic \in SpuriousLocalApicVectors
    /\ lvtErrorVector \in LvtErrorVectors
    /\ lapicRegs = [r \in LocalApicRegisters |-> 0]
    /\ lapicLog = {}
    /\ lapicPanicked = FALSE
    /\ lapicStray = FALSE
    /\ lapicPc = "new"

\* no LocalApic made
LapicIdle ==
    /\ lapicBaseOffset = 0
    /\ spuriousLocalApic = 255
    /\ lvtErrorVector = 254
    /\ lapicRegs = [r \in LocalApicRegisters |-> 0]
    /\ lapicLog = {}
    /\ lapicPanicked = FALSE
    /\ lapicStray = FALSE
    /\ lapicPc = "idle"

(***************************************************************************)
(* init from "Initializing ACPI" on: device::acpi::init, apic::init and    *)
(* device::init, on a platform whose firmware tables are drawn from small  *)
(* sets.                                                                   *)
(***************************************************************************)

\* what the firmware offers: the RSDP, whether AcpiTables can be made of it,
\* the tables found and whether the AML of the DSDT and SSDTs parses and
\* its objects initialise
Platforms ==
    [rsdp : {"none", "invalid", "valid"}, tables : BOOLEAN, fadt : BOOLEAN,
     madt : {"none", "without_io_apic", "with_io_apic"}, mcfg : BOOLEAN,
     aml_parse : BOOLEAN, aml_objects : BOOLEAN]

\* AcpiData::default()
AcpiData_default == [madt |-> "none", fadt |-> FALSE, aml |-> FALSE, mcfg |-> FALSE]

BootOutcome(cache, panic) == [cache |-> cache, panic |-> panic]

\* device::acpi::init: the AcpiData it leaves and the expect that failed
acpi_init(platform) ==
    IF platform.rsdp = "none" THEN BootOutcome(AcpiData_default, None)
    ELSE IF platform.rsdp = "invalid" THEN BootOutcome(AcpiData_default, None)
    ELSE IF ~platform.tables THEN BootOutcome(AcpiData_default, None)
    ELSE LET found == [AcpiData_default EXCEPT !.fadt = platform.fadt,
                                               !.madt = platform.madt]
         IN IF ~platform.aml_parse
              THEN BootOutcome(found, Some("Failed to populate ACPI information"))
            ELSE IF ~platform.aml_objects
              THEN BootOutcome(found, Some("Failed to initialize AML objects"))
            ELSE BootOutcome([found EXCEPT !.aml = TRUE], None)

\* find_io_apic_base().expect("NO IOAPIC FOUND :(") of IOApic::new
apic_init(cache) ==
    IF cache.madt = "with_io_apic" THEN None ELSE Some("NO IOAPIC FOUND :(")

\* pci::init: try_create_pci_express_mechanism() or the legacy mechanism
pci_init(cache) == IF cache.mcfg THEN "express" ELSE "legacy"

BootAcpiInit ==
    /\ bootPc = "acpi::init"
    /\ acpiCache' = acpi_init(bootPlatform).cache
    /\ bootPanic' = acpi_init(bootPlatform).panic
    /\ bootPc' = IF acpi_init(bootPlatform).panic = None THEN "apic::init" ELSE "panic"
    /\ UNCHANGED <<bootPlatform, pciMechanism>>

BootApicInit ==
    /\ bootPc = "apic::init"
    /\ bootPanic' = apic_init(acpiCache)
    /\ bootPc' = IF apic_init(acpiCache) = None THEN "device::init" ELSE "panic"
    /\ UNCHANGED <<bootPlatform, acpiCache, pciMechanism>>

BootDeviceInit ==
    /\ bootPc = "device::init"
    /\ pciMechanism' = pci_init(acpiCache)
    /\ bootPc' = "finished"
    /\ UNCHANGED <<bootPlatform, acpiCache, bootPanic>>

\* #[panic_handler]: error!("[PANIC] {info}"); hlt_loop()
BootPanicHandler ==
    /\ bootPc = "panic"
    /\ bootPc' = "hlt_loop"
    /\ UNCHANGED <<bootPlatform, acpiCache, bootPanic, pciMechanism>>

\* init has initialised the heap and is about to call device::acpi::init
BootInit ==
    /\ bootPlatform \in Platforms
    /\ acpiCache = AcpiData_default
    /\ bootPanic = None
    /\ pciMechanism = "none"
    /\ bootPc = "acpi::init"

\* init not looked at
BootIdle ==
    /\ bootPlatform = [rsdp |-> "none", tables |-> FALSE, fadt |-> FALSE,
                       madt |-> "none", mcfg |-> FALSE, aml_parse |-> FALSE,
                       aml_objects |-> FALSE]
    /\ acpiCache = AcpiData_default
    /\ bootPanic = None
    /\ pciMechanism = "none"
    /\ bootPc = "idle"

(***************************************************************************)
(* PCI configuration space access: the CF8/CFC port pair of the legacy     *)
(* mechanism (device/pci/config.rs, device/pci/types.rs), the PCI          *)
(* accessors of the AML handler (device/acpi/mod.rs) and the memory-mapped *)
(* offsets of PCI Express.  A u32 is kept as its two 16-bit halves         *)
(* <<high, low>>.                                                          *)
(***************************************************************************)

CONFIG_ADDRESS == 3320     \* 0xCF8
CONFIG_DATA == 3324        \* 0xCFC

U32(high, low) == <<high, low>>
AllOnes == U32(65535, 65535)

\* offset as u32 & 0xFC
MaskFC(offset) == (offset % 256) - (offset % 4)

\* PciAddress::create_local_bus_address with device << 10
create_local_bus_address_device_shift_10(pci_addr, offset, enabled) ==
    U32(BitOr(BitOr(pci_addr.bus, (pci_addr.device * 1024) \div 65536, 16),
              IF enabled THEN 32768 ELSE 0, 16),
        BitOr(BitOr((pci_addr.device * 1024) % 65536, pci_addr.function * 256, 16),
              MaskFC(offset), 16))

\* PciAddress::create_local_bus_address
create_local_bus_address(pci_addr, offset, enabled) ==
    U32(BitOr(BitOr(pci_addr.bus, (pci_addr.device * 2048) \div 65536, 16),
              IF enabled THEN 32768 ELSE 0, 16),
        BitOr(BitOr((pci_addr.device * 2048) % 65536, pci_addr.function * 256, 16),
              MaskFC(offset), 16))

\* PciRequest::address
PciRequest_address(request) ==
    U32(BitOr(BitOr(request.bus, (request.device * 2048) \div 65536, 16), 32768, 16),
        BitOr(BitOr((request.device * 2048) % 65536, request.function * 256, 16),
              MaskFC(request.offset), 16))

\* one access to an I/O port
PortAccess(port, dir, value) == [port |-> port, dir |-> dir, value |-> value]

\* the host bridge answering a read of CONFIG_DATA: with the enable bit of
\* the latched CONFIG_ADDRESS set the dword of the configuration space it
\* names, all ones where no function answers; with the bit clear the read
\* is no configuration access and nothing claims it
config_data_read(latch, space) ==
    IF latch[1] >= 32768 /\ latch \in DOMAIN space THEN space[latch] ELSE AllOnes

\* the host bridge taking a write of CONFIG_DATA
config_data_write(latch, space, data) ==
    IF latch[1] >= 32768 /\ latch \in DOMAIN space
    THEN [space EXCEPT ![latch] = data] ELSE space

\* the half of a dword that data >> ((offset & 2) * 8) & 0xFFFF leaves
ShiftRightAndMask(data, offset) ==
    IF (offset \div 2) % 2 = 1 THEN data[1] ELSE data[2]

CfgOutcome(latch, space, log, result) ==
    [latch |-> latch, space |-> space, log |-> log, result |-> result]

\* PciLocalBusConfigurationSpace::read_dword
read_dword(space, pci_addr, offset) ==
    LET address == create_local_bus_address(pci_addr, offset, TRUE)
        data == config_data_read(address, space)
    IN CfgOutcome(address, space,
                  <<PortAccess(CONFIG_ADDRESS, "write", address),
                    PortAccess(CONFIG_DATA, "read", data)>>,
                  data)

\* PciLocalBusConfigurationSpace::read_word
read_word(space, pci_addr, offset) ==
    LET out == read_dword(space, pci_addr, offset)
    IN [out EXCEPT !.result = ShiftRightAndMask(out.result, offset)]

\* PciLocalBusConfigurationSpace::write_word
write_word(space, pci_addr, offset, value) ==
    LET address == create_local_bus_address(pci_addr, offset, FALSE)
        data == config_data_read(address, space)
        merged == IF (offset \div 2) % 2 = 0
                  THEN U32(data[1], value)
                  ELSE U32(value, data[2])
    IN CfgOutcome(address, config_data_write(address, space, merged),
                  <<PortAccess(CONFIG_ADDRESS, "write", address),
                    PortAccess(CONFIG_DATA, "read", data),
                    PortAccess(CONFIG_DATA, "write", merged)>>,
                  None)

\* a read of CONFIG_ADDRESS: a dword read gives the latch back, a narrower
\* read is not claimed by the host bridge
config_address_read(latch, width) ==
    IF width = 32 THEN latch
    ELSE IF width = 16 THEN U32(0, 65535) ELSE U32(0, 255)

\* aml_read_pci::<T>
aml_read_pci(space, request, width) ==
    LET address == PciRequest_address(request)
    IN CfgOutcome(address, space,
                  <<PortAccess(CONFIG_ADDRESS, "write", address),
                    PortAccess(CONFIG_ADDRESS, "read", config_address_read(address, width))>>,
                  config_address_read(address, width))

\* aml_write_pci::<T>: a trace! and nothing else
aml_write_pci(latch, space, request, width, value) ==
    CfgOutcome(latch, space, <<>>, None)

\* PciAddress::create_express_offset with device << 16
create_express_offset_device_shift_16(pci_addr, offset, bus_number_start) ==
    BitOr(BitOr((pci_addr.bus - bus_number_start) * 1048576,
                (pci_addr.device % 32) * 65536, 28),
          (pci_addr.function % 8) * 4096 + (offset % 4096), 28)

\* PciAddress::create_express_offset, for bus >= bus_number_start as its
\* callers have it: + binds tighter than |
create_express_offset(pci_addr, offset, bus_number_start) ==
    BitOr(BitOr((pci_addr.bus - bus_number_start) * 1048576,
                (pci_addr.device % 32) * 32768, 28),
          (pci_addr.function % 8) * 4096 + (offset % 4096), 28)

\* McfgEntry { base_address (as a page number), pci_segment_group,
\* bus_number_start, bus_number_end }
McfgEntries ==
    {[base_page |-> 720896, pci_segment_group |-> 0, bus_number_start |-> s,
      bus_number_end |-> t] : <<s, t>> \in {<<0, 3>>, <<1, 2>>, <<0, 127>>}}

\* the region_length and mapped_length of the mapping
\* PciExpressConfigurationSpace::new makes for an entry; the base address is
\* page aligned
PciExpressMapping(entry) ==
    LET max == PciAddress(entry.pci_segment_group, entry.bus_number_end, 255, 255)
        size == create_express_offset(max, 65535, entry.bus_number_start)
    IN [size |-> size, mapped_length |-> AlignUp(size)]

\* PciExpressConfigurationSpace::config_space_to_address_space on a space of
\* one entry: the offset from the virtual start of its mapping
config_space_to_address_space(entry, pci_addr, offset) ==
    IF entry.pci_segment_group # pci_addr.segment THEN None
    ELSE IF pci_addr.bus < entry.bus_number_start \/ pci_addr.bus > entry.bus_number_end
    THEN None
    ELSE Some(create_express_offset(pci_addr, offset, entry.bus_number_start))

CfgAddresses ==
    {PciAddress(s, b, d, f) : s \in {0, 1}, b \in {0, 2, 3, 255},
                              d \in {0, 2, 16, 31}, f \in {0, 7}}
CfgOffsets == {0, 16, 254, 260, 4095, 4096}
CfgCall(op, pci_addr, offset, arg) ==
    [op |-> op, addr |-> pci_addr, offset |-> offset, arg |-> arg]

CreateLocalBusAddress ==
    /\ cfgPc = "address"
    /\ \E a \in CfgAddresses, offset \in CfgOffsets, enabled \in BOOLEAN :
         /\ cfgCall' = CfgCall("create_local_bus_address", a, offset, enabled)
         /\ cfgResult' = create_local_bus_address(a, offset, enabled)
    /\ cfgPc' = "applied"
    /\ UNCHANGED <<cfgAddressPort, cfgSpace, cfgBefore, cfgLog>>

ConfigSpaceToAddressSpace ==
    /\ cfgPc = "address"
    /\ \E entry \in McfgEntries, a \in CfgAddresses, offset \in CfgOffsets :
         /\ cfgCall' = CfgCall("config_space_to_address_space", a, offset, entry)
         /\ cfgResult' = config_space_to_address_space(entry, a, offset)
    /\ cfgPc' = "applied"
    /\ UNCHANGED <<cfgAddressPort, cfgSpace, cfgBefore, cfgLog>>

\* the functions the port model talks to
LegacyAddresses == {PciAddress(0, 0, 2, 0), PciAddress(0, 0, 3, 0)}
LegacyOffsets == {0, 2, 4, 6}
LegacyWords == {4660, 43981}

CfgApply(call, out) ==
    /\ cfgCall' = call
    /\ cfgBefore' = cfgSpace
    /\ cfgAddressPort' = out.latch
    /\ cfgSpace' = out.space
    /\ cfgLog' = out.log
    /\ cfgResult' = out.result
    /\ UNCHANGED cfgPc

LegacyReadDword ==
    /\ cfgPc = "ports"
    /\ \E a \in LegacyAddresses, offset \in LegacyOffsets :
         CfgApply(CfgCall("read_dword", a, offset, None), read_dword(cfgSpace, a, offset))

LegacyReadWord ==
    /\ cfgPc = "ports"
    /\ \E a \in LegacyAddresses, offset \in LegacyOffsets :
         CfgApply(CfgCall("read_word", a, offset, None), read_word(cfgSpace, a, offset))

LegacyWriteWord ==
    /\ cfgPc = "ports"
    /\ \E a \in LegacyAddresses, offset \in LegacyOffsets, value \in LegacyWords :
         CfgApply(CfgCall("write_word", a, offset, value),
                  write_word(cfgSpace, a, offset, value))

AmlRequests ==
    {[segment |-> 0, bus |-> a.bus, device |-> a.device, function |-> a.function,
      offset |-> offset] : a \in LegacyAddresses, offset \in LegacyOffsets}

AmlReadPci ==
    /\ cfgPc = "ports"
    /\ \E request \in AmlRequests, width \in {8, 16, 32} :
         CfgApply(CfgCall("aml_read_pci", request, request.offset, width),
                  aml_read_pci(cfgSpace, request, width))

AmlWritePci ==
    /\ cfgPc = "ports"
    /\ \E request \in AmlRequests, width \in {8, 16, 32}, value \in LegacyWords :
         CfgApply(CfgCall("aml_write_pci", request, request.offset, <<width, U32(0, value)>>),
                  aml_write_pci(cfgAddressPort, cfgSpace, request, width, U32(0, value)))

\* bus 0 device 2 function 0 answers with two dwords, nothing else does
CfgSpaces ==
    [{create_local_bus_address(PciAddress(0, 0, 2, 0), offset, TRUE) : offset \in {0, 4}}
        -> {U32(4660, 22136), U32(0, 65535)}]

CfgNoCall == CfgCall("none", PciAddress(0, 0, 0, 0), 0, None)

\* before create_local_bus_address or create_express_offset is applied
PciAddressInit ==
    /\ cfgCall = CfgNoCall
    /\ cfgAddressPort = U32(0, 0)
    /\ cfgSpace = [x \in {} |-> AllOnes]
    /\ cfgBefore = cfgSpace
    /\ cfgLog = <<>>
    /\ cfgResult = None
    /\ cfgPc = "address"

\* the ports after reset: CONFIG_ADDRESS reads 0
PciPortsInit ==
    /\ cfgCall = CfgNoCall
    /\ cfgAddressPort = U32(0, 0)
    /\ cfgSpace \in CfgSpaces
    /\ cfgBefore = cfgSpace
    /\ cfgLog = <<>>
    /\ cfgResult = None
    /\ cfgPc = "ports"

\* configuration space not looked at
CfgIdle ==
    /\ cfgCall = CfgNoCall
    /\ cfgAddressPort = U32(0, 0)
    /\ cfgSpace = [x \in {} |-> AllOnes]
    /\ cfgBefore = cfgSpace
    /\ cfgLog = <<>>
    /\ cfgResult = None
    /\ cfgPc = "idle"

(***************************************************************************)
(* The provided methods of ConfigurationSpaceMechanism over the legacy     *)
(* mechanism: header_type, base_address, command, write_command and        *)
(* enable_bus_mastering (device/pci/config.rs), PciHeaderType              *)
(* (device/pci/types.rs).                                                  *)
(***************************************************************************)

\* PciHeaderType::new
PciHeaderType_new(id) ==
    IF id = 0 THEN "Normal"
    ELSE IF id = 1 THEN "PciToPciBridge"
    ELSE IF id = 2 THEN "CardBusBridge"
    ELSE "Unknown"

\* PciHeaderType::bar_count
bar_count(ty) ==
    IF ty = "Normal" THEN 6
    ELSE IF ty = "PciToPciBridge" THEN 2
    ELSE 0

\* ConfigurationSpaceMechanism::header_type: read_word(addr, 0xE) as u8
header_type(space, pci_addr) ==
    LET out == read_word(space, pci_addr, 14)
    IN [out EXCEPT !.result = PciHeaderType_new(out.result % 256)]

\* ConfigurationSpaceMechanism::base_address
base_address(space, pci_addr, idx) ==
    LET ty == header_type(space, pci_addr)
    IN IF bar_count(ty.result) > idx
       THEN LET bar == read_dword(ty.space, pci_addr, 16 + ((idx * 4) % 65536))
            IN CfgOutcome(bar.latch, bar.space, ty.log \o bar.log, Some(bar.result))
       ELSE CfgOutcome(ty.latch, ty.space, ty.log, None)

\* ConfigurationSpaceMechanism::command
command(space, pci_addr) == read_word(space, pci_addr, 4)

\* ConfigurationSpaceMechanism::write_command
write_command(space, pci_addr, value) == write_word(space, pci_addr, 4, value)

\* ConfigurationSpaceMechanism::enable_bus_mastering: command | (1 << 2)
enable_bus_mastering(space, pci_addr) ==
    LET cmd == command(space, pci_addr)
        out == write_command(cmd.space, pci_addr, BitOr(cmd.result, 4, 16))
    IN CfgOutcome(out.latch, out.space, cmd.log \o out.log, None)

MaxBarIndex == 7    \* base_address is asked for BAR 0..MaxBarIndex

BaseAddress ==
    /\ cfgPc = "device"
    /\ \E a \in LegacyAddresses, idx \in 0..MaxBarIndex :
         CfgApply(CfgCall("base_address", a, 0, idx), base_address(cfgSpace, a, idx))

EnableBusMastering ==
    /\ cfgPc = "device"
    /\ \E a \in LegacyAddresses :
         CfgApply(CfgCall("enable_bus_mastering", a, 4, None),
                  enable_bus_mastering(cfgSpace, a))

\* the dword of bus 0 device 2 function 0 at a configuration offset
DeviceSlot(offset) == create_local_bus_address(PciAddress(0, 0, 2, 0), offset, TRUE)

\* the header type byte at 0xE (bit 7: multi-function device) and the
\* command word at 0x4 of the function that answers
HeaderTypeBytes == {0, 1, 2, 3, 128, 129, 255}
CommandWords == {0, 4, 263, 65531}

\* the header of bus 0 device 2 function 0: status 0x0290 over the command,
\* BIST 0 over the header type, latency timer and cache line size, and six
\* BAR dwords that differ
DeviceSpaces ==
    {[slot \in {DeviceSlot(offset) : offset \in {4, 12, 16, 20, 24, 28, 32, 36}} |->
        IF slot = DeviceSlot(4) THEN U32(656, cmd)
        ELSE IF slot = DeviceSlot(12) THEN U32(ty, 8200)
        ELSE U32(65024, slot[2])] : cmd \in CommandWords, ty \in HeaderTypeBytes}

\* the ports after reset, a function with a header behind them
PciDeviceInit ==
    /\ cfgCall = CfgNoCall
    /\ cfgAddressPort = U32(0, 0)
    /\ cfgSpace \in DeviceSpaces
    /\ cfgBefore = cfgSpace
    /\ cfgLog = <<>>
    /\ cfgResult = None
    /\ cfgPc = "device"

(***************************************************************************)
(* Executor::run with print_keypresses as its one task (main.rs:95-97).    *)
(* The executor is the one of the specification, section 4.14: it pops a   *)
(* ready id and polls the task, a task that is pending is left alone until *)
(* its waker pushes the id again, and when the ready queue is empty while  *)
(* a task lives it halts with interrupts enabled.  taskWoken says that the *)
(* id of the task is on the ready queue.                                   *)
(***************************************************************************)

MaxExecScancodes == 3   \* keyboard interrupts while the executor runs

\* a keyboard interrupt: the handler runs to its end, and a processor that
\* was halted goes on after its hlt
ExecKeyboardInterrupt ==
    /\ execPc # "returned"
    /\ nPassed < MaxExecScancodes
    /\ KeyboardHandlerRuns
    /\ execPc' = IF execPc = "halted" THEN "run_ready" ELSE execPc

\* a timer interrupt ends the hlt; it leaves the task and the stream alone
ExecTimerInterrupt ==
    /\ execPc = "halted"
    /\ execPc' = "run_ready"
    /\ UNCHANGED kbdVars

\* run pops the id and polls the task without looking at the stream: the
\* id is gone and the task is where it was
ExecRunTask_dropping_id ==
    /\ execPc = "run_ready"
    /\ \/ ScancodeStream_new
       \/ /\ streamPc = "pending" /\ taskWoken
          /\ taskWoken' = FALSE
          /\ UNCHANGED <<queueInit, queue, wakerSlot, wakerState, streamPc,
                         observed, nPassed, dropLog>>
    /\ execPc' = IF streamPc' = "pending" THEN "run_ready" ELSE "polling"

\* run pops a ready id and polls its task: the first poll of
\* print_keypresses makes the stream, a later one goes on in poll_next
ExecRunTask ==
    /\ execPc = "run_ready"
    /\ (ScancodeStream_new \/ ExecutorPoll)
    /\ execPc' = "polling"

\* the poll goes on until poll_next returns Pending, which the task hands
\* on; were the stream to end, print_keypresses would complete and run,
\* left without live tasks, would return
ExecPollStep ==
    /\ execPc = "polling"
    /\ (PollPop1 \/ RegisterBegin \/ RegisterEnd \/ PollPop2 \/ NextAfterReady)
    /\ execPc' = IF streamPc' = "pending" THEN "run_ready"
                 ELSE IF streamPc' = "ended" THEN "returned"
                 ELSE "polling"

\* run finds no ready id
ExecRunQueueEmpty ==
    /\ execPc = "run_ready"
    /\ streamPc = "pending"
    /\ ~taskWoken
    /\ execPc' = "idle_check"
    /\ UNCHANGED kbdVars

\* the ready queue is looked at once more before halting
ExecIdleCheck ==
    /\ execPc = "idle_check"
    /\ execPc' = IF taskWoken THEN "run_ready" ELSE "hlt"
    /\ UNCHANGED kbdVars

\* hlt, with interrupts enabled
ExecHlt ==
    /\ execPc = "hlt"
    /\ execPc' = "halted"
    /\ UNCHANGED kbdVars

\* executor.spawn(Task::new(keyboard::print_keypresses())) done, run entered
ExecInit == execPc = "run_ready"

\* the executor not looked at
ExecIdle == execPc = "idle"

(***************************************************************************)
(* Specifications                                                          *)
(***************************************************************************)

notFrameVars == <<pageVars, kbdVars, irqVars, acpiVars, pciVars, sdVars, ioVars, lapicVars, bootVars, cfgVars, execVars>>
notPageVars == <<frameVars, kbdVars, irqVars, acpiVars, pciVars, sdVars, ioVars, lapicVars, bootVars, cfgVars, execVars>>
notKbdVars == <<frameVars, pageVars, irqVars, acpiVars, pciVars, sdVars, ioVars, lapicVars, bootVars, cfgVars, execVars>>
notIrqVars == <<frameVars, pageVars, acpiVars, pciVars, sdVars, ioVars, lapicVars, bootVars, cfgVars, execVars>>
notAcpiVars == <<frameVars, kbdVars, irqVars, pciVars, sdVars, ioVars, lapicVars, bootVars, cfgVars, execVars>>
notPciVars == <<frameVars, pageVars, kbdVars, irqVars, acpiVars, sdVars, ioVars, lapicVars, bootVars, cfgVars, execVars>>

FrameNext ==
    \/ allocate_frame /\ UNCHANGED notFrameVars
    \/ \E phys \in PhysProbes(memory_regions) :
          allocate_frame_from_physical(phys) /\ UNCHANGED notFrameVars

InitFrame == FrameInit /\ PageInit /\ KbdInit /\ IrqInit /\ AcpiInit /\ PciIdle /\ ShutdownIdle /\ IOApicIdle /\ LapicIdle /\ BootIdle /\ CfgIdle /\ ExecIdle

SpecFrame == InitFrame /\ [][FrameNext]_vars

PageNext ==
    \/ \E n \in 0..MaxPagesPerCall : allocate_n(n) /\ UNCHANGED notPageVars
    \/ allocate /\ UNCHANGED notPageVars

InitPage == FrameIdle /\ PageInit /\ KbdInit /\ IrqInit /\ AcpiInit /\ PciIdle /\ ShutdownIdle /\ IOApicIdle /\ LapicIdle /\ BootIdle /\ CfgIdle /\ ExecIdle

SpecPage == InitPage /\ [][PageNext]_vars

KbdNext ==
    \/ KeyboardHandlerRuns /\ UNCHANGED notKbdVars
    \/ ScancodeStream_new /\ UNCHANGED notKbdVars
    \/ PollPop1 /\ UNCHANGED notKbdVars
    \/ RegisterBegin /\ UNCHANGED notKbdVars
    \/ RegisterEnd /\ UNCHANGED notKbdVars
    \/ PollPop2 /\ UNCHANGED notKbdVars
    \/ NextAfterReady /\ UNCHANGED notKbdVars
    \/ ExecutorPoll /\ UNCHANGED notKbdVars

InitKbd == FrameIdle /\ PageInit /\ KbdInit /\ IrqInit /\ AcpiInit /\ PciIdle /\ ShutdownIdle /\ IOApicIdle /\ LapicIdle /\ BootIdle /\ CfgIdle /\ ExecIdle

SpecKbd == InitKbd /\ [][KbdNext]_vars

IrqNext ==
    \/ BootSetFbLock /\ UNCHANGED notIrqVars
    \/ BootSetFbDone /\ UNCHANGED notIrqVars
    \/ BootPicsInitializeLock /\ UNCHANGED notIrqVars
    \/ BootPicsInitializeDone /\ UNCHANGED notIrqVars
    \/ BootApicInitLock /\ UNCHANGED notIrqVars
    \/ BootApicInitDone /\ UNCHANGED notIrqVars
    \/ BootPicsDisableLock /\ UNCHANGED notIrqVars
    \/ BootPicsDisableDone /\ UNCHANGED notIrqVars
    \/ BootEnable /\ UNCHANGED notIrqVars
    \/ \E level \in {"Trace", "Info"} : LogSerialLock(level) /\ UNCHANGED notIrqVars
    \/ LogSerialDone /\ UNCHANGED notIrqVars
    \/ VgaPrintLock /\ UNCHANGED notIrqVars
    \/ VgaPrintDone /\ UNCHANGED notIrqVars
    \/ \E ms \in SleepDurations : SleepCall(ms) /\ UNCHANGED notIrqVars
    \/ SleepEndRead /\ UNCHANGED notIrqVars
    \/ SleepCheckLock /\ UNCHANGED notIrqVars
    \/ SleepCheckRead /\ UNCHANGED notIrqVars
    \/ Hlt /\ UNCHANGED notIrqVars
    \/ TaskStreamNew /\ UNCHANGED notIrqVars
    \/ TaskNextScancode /\ UNCHANGED notIrqVars
    \/ BackspaceLock /\ UNCHANGED notIrqVars
    \/ BackspaceDone /\ UNCHANGED notIrqVars
    \/ TimerIrq /\ UNCHANGED notIrqVars
    \/ KeyboardIrq /\ UNCHANGED notIrqVars
    \/ interrupt_begin /\ UNCHANGED notIrqVars
    \/ PortRead /\ UNCHANGED notIrqVars
    \/ HandlerAddScancode /\ UNCHANGED notIrqVars
    \/ WarnSerialLock /\ UNCHANGED notIrqVars
    \/ WarnSerialDone /\ UNCHANGED notIrqVars
    \/ WarnVgaLock /\ UNCHANGED notIrqVars
    \/ WarnVgaDone /\ UNCHANGED notIrqVars
    \/ EoiLock /\ UNCHANGED notIrqVars
    \/ NotifyEndOfInterrupt /\ UNCHANGED notIrqVars
    \/ Iret /\ UNCHANGED notIrqVars

InitIrq == FrameIdle /\ PageInit /\ KbdInit /\ IrqInit /\ AcpiInit /\ PciIdle /\ ShutdownIdle /\ IOApicIdle /\ LapicIdle /\ BootIdle /\ CfgIdle /\ ExecIdle

SpecIrq == InitIrq /\ [][IrqNext]_vars

\* A handler that has been entered runs on to its iretq
HandlerStep ==
    \/ interrupt_begin \/ PortRead \/ HandlerAddScancode
    \/ WarnSerialLock \/ WarnSerialDone \/ WarnVgaLock \/ WarnVgaDone
    \/ EoiLock \/ NotifyEndOfInterrupt \/ Iret

\* The processor executes the sleep loop whenever no handler runs
SleepStep == SleepEndRead \/ SleepCheckLock \/ SleepCheckRead \/ Hlt

\* The same kernel with its scheduling: handlers and the sleep loop make
\* progress, and timer interrupts keep arriving
SpecIrqFair ==
    /\ SpecIrq
    /\ WF_vars(HandlerStep /\ UNCHANGED notIrqVars)
    /\ WF_vars(SleepStep /\ UNCHANGED notIrqVars)
    /\ SF_vars(TimerIrq /\ UNCHANGED notIrqVars)



AcpiNext ==
    \/ \E physical_address \in AcpiPhysicalAddresses, size \in AcpiSizes :
          map_physical_region(physical_address, size) /\ UNCHANGED notAcpiVars
    \/ \E region \in acpiMappings :
          unmap_physical_region(region) /\ UNCHANGED notAcpiVars

InitAcpi == FrameIdle /\ PageInit /\ KbdInit /\ IrqInit /\ AcpiInit /\ PciIdle /\ ShutdownIdle /\ IOApicIdle /\ LapicIdle /\ BootIdle /\ CfgIdle /\ ExecIdle

SpecAcpi == InitAcpi /\ [][AcpiNext]_vars

PciNext ==
    \/ EnumerateNext /\ UNCHANGED notPciVars

InitPci == FrameIdle /\ PageInit /\ KbdInit /\ IrqInit /\ AcpiInit /\ PciInit /\ ShutdownIdle /\ IOApicIdle /\ LapicIdle /\ BootIdle /\ CfgIdle /\ ExecIdle

SpecPci == InitPci /\ [][PciNext]_vars

notSdVars == <<frameVars, pageVars, kbdVars, irqVars, acpiVars, pciVars, ioVars, lapicVars, bootVars, cfgVars, execVars>>

SdNext ==
    \/ RequestShutdownDetect /\ UNCHANGED notSdVars
    \/ RequestShutdownFastPath /\ UNCHANGED notSdVars
    \/ BeforeAcpiShutdown /\ UNCHANGED notSdVars
    \/ DoShutdownUsingAcpi /\ UNCHANGED notSdVars
    \/ RecoverAcpiShutdown /\ UNCHANGED notSdVars
    \/ RequestShutdownExpect /\ UNCHANGED notSdVars

InitShutdown == FrameIdle /\ PageInit /\ KbdInit /\ IrqInit /\ AcpiInit /\ PciIdle /\ ShutdownInit /\ IOApicIdle /\ LapicIdle /\ BootIdle /\ CfgIdle /\ ExecIdle

SpecShutdown == InitShutdown /\ [][SdNext]_vars

notIoVars == <<frameVars, pageVars, kbdVars, irqVars, acpiVars, pciVars, sdVars, lapicVars, bootVars, cfgVars, execVars>>

IoNext ==
    \/ IOApicInitializeMap /\ UNCHANGED notIoVars
    \/ MapAllToSpuriousVectorsStep /\ UNCHANGED notIoVars
    \/ IOApicInitializeReturn /\ UNCHANGED notIoVars

InitIo == FrameIdle /\ PageInit /\ KbdInit /\ IrqInit /\ AcpiInit /\ PciIdle /\ ShutdownIdle /\ IOApicInit /\ LapicIdle /\ BootIdle /\ CfgIdle /\ ExecIdle

SpecIo == InitIo /\ [][IoNext]_vars

IoEntryNext ==
    \/ \E index \in 0..2, entry \in EntryValues :
          WriteEntry(index, entry) /\ UNCHANGED notIoVars

InitIoEntry == FrameIdle /\ PageInit /\ KbdInit /\ IrqInit /\ AcpiInit /\ PciIdle /\ ShutdownIdle /\ IOApicEntryInit /\ LapicIdle /\ BootIdle /\ CfgIdle /\ ExecIdle

SpecIoEntry == InitIoEntry /\ [][IoEntryNext]_vars

notLapicVars == <<frameVars, pageVars, kbdVars, irqVars, acpiVars, pciVars, sdVars, ioVars, bootVars, cfgVars, execVars>>

LapicNext ==
    \/ LocalApicInitialize /\ UNCHANGED notLapicVars
    \/ \E op \in DOMAIN LapicOperations :
          LocalApicOperation(op) /\ UNCHANGED notLapicVars
    \/ LapicPageFault /\ UNCHANGED notLapicVars

InitLapic == FrameIdle /\ PageInit /\ KbdInit /\ IrqInit /\ AcpiInit /\ PciIdle /\ ShutdownIdle /\ IOApicIdle /\ LapicInit /\ BootIdle /\ CfgIdle /\ ExecIdle

SpecLapic == InitLapic /\ [][LapicNext]_vars

notBootVars == <<frameVars, pageVars, kbdVars, irqVars, acpiVars, pciVars, sdVars, ioVars, lapicVars, cfgVars, execVars>>

BootNext ==
    \/ BootAcpiInit /\ UNCHANGED notBootVars
    \/ BootApicInit /\ UNCHANGED notBootVars
    \/ BootDeviceInit /\ UNCHANGED notBootVars
    \/ BootPanicHandler /\ UNCHANGED notBootVars

InitBoot == FrameIdle /\ PageInit /\ KbdInit /\ IrqInit /\ AcpiInit /\ PciIdle /\ ShutdownIdle /\ IOApicIdle /\ LapicIdle /\ BootInit /\ CfgIdle /\ ExecIdle

SpecBoot == InitBoot /\ [][BootNext]_vars

notCfgVars == <<frameVars, pageVars, kbdVars, irqVars, acpiVars, pciVars, sdVars, ioVars, lapicVars, bootVars, execVars>>

PciAddressNext ==
    \/ CreateLocalBusAddress /\ UNCHANGED notCfgVars
    \/ ConfigSpaceToAddressSpace /\ UNCHANGED notCfgVars

InitPciAddress == FrameIdle /\ PageInit /\ KbdInit /\ IrqInit /\ AcpiInit /\ PciIdle /\ ShutdownIdle /\ IOApicIdle /\ LapicIdle /\ BootIdle /\ PciAddressInit /\ ExecIdle

SpecPciAddress == InitPciAddress /\ [][PciAddressNext]_vars

PciPortsNext ==
    \/ LegacyReadDword /\ UNCHANGED notCfgVars
    \/ LegacyReadWord /\ UNCHANGED notCfgVars
    \/ LegacyWriteWord /\ UNCHANGED notCfgVars
    \/ AmlReadPci /\ UNCHANGED notCfgVars
    \/ AmlWritePci /\ UNCHANGED notCfgVars

InitPciPorts == FrameIdle /\ PageInit /\ KbdInit /\ IrqInit /\ AcpiInit /\ PciIdle /\ ShutdownIdle /\ IOApicIdle /\ LapicIdle /\ BootIdle /\ PciPortsInit /\ ExecIdle

SpecPciPorts == InitPciPorts /\ [][PciPortsNext]_vars

PciDeviceNext ==
    \/ BaseAddress /\ UNCHANGED notCfgVars
    \/ EnableBusMastering /\ UNCHANGED notCfgVars

InitPciDevice == FrameIdle /\ PageInit /\ KbdInit /\ IrqInit /\ AcpiInit /\ PciIdle /\ ShutdownIdle /\ IOApicIdle /\ LapicIdle /\ BootIdle /\ PciDeviceInit /\ ExecIdle

SpecPciDevice == InitPciDevice /\ [][PciDeviceNext]_vars

\* the executor's actions change execVars and kbdVars
notExecVars == <<frameVars, pageVars, irqVars, acpiVars, pciVars, sdVars, ioVars, lapicVars, bootVars, cfgVars>>

ExecNext ==
    \/ ExecKeyboardInterrupt /\ UNCHANGED notExecVars
    \/ ExecTimerInterrupt /\ UNCHANGED notExecVars
    \/ ExecRunTask /\ UNCHANGED notExecVars
    \/ ExecPollStep /\ UNCHANGED notExecVars
    \/ ExecRunQueueEmpty /\ UNCHANGED notExecVars
    \/ ExecIdleCheck /\ UNCHANGED notExecVars
    \/ ExecHlt /\ UNCHANGED notExecVars

InitExec == FrameIdle /\ PageInit /\ KbdInit /\ IrqInit /\ AcpiInit /\ PciIdle /\ ShutdownIdle /\ IOApicIdle /\ LapicIdle /\ BootIdle /\ CfgIdle /\ ExecInit

SpecExec == InitExec /\ [][ExecNext]_vars

\* the executor runs on whenever it is not halted
ExecStep ==
    \/ ExecRunTask \/ ExecPollStep \/ ExecRunQueueEmpty \/ ExecIdleCheck \/ ExecHlt

\* The same executor with its scheduling: it makes progress while it is not
\* halted, and the periodic timer interrupt ends every hlt
SpecExecFair ==
    /\ SpecExec
    /\ WF_vars(ExecStep /\ UNCHANGED notExecVars)
    /\ WF_vars(ExecTimerInterrupt /\ UNCHANGED notExecVars)

(***************************************************************************)
(* Properties of the scancode stream                                       *)
(***************************************************************************)

\* C1: no lost wake-up: whenever the last poll_next returned Pending and the
\* queue holds a scancode, the waker that poll registered has been woken.
C1_NoLostWakeup ==
    (streamPc = "pending" /\ queue # <<>>) => taskWoken

C1_Witness ==
    /\ streamPc = "pending"
    /\ queue # <<>>
    /\ taskWoken
    /\ wakerSlot = "none"
    /\ observed # <<>>

DroppedIdx == {d.idx : d \in dropLog}

\* The bytes add_scancode enqueued, in the order of the calls.
EnqueuedBytes ==
    LET kept(k) == k \notin DroppedIdx
        idxs == SelectSeq([k \in 1..nPassed |-> k], kept)
    IN  [i \in 1..Len(idxs) |-> ScancodeOf(idxs[i])]

C2_Fifo ==
    /\ Len(queue) <= 100
    /\ observed \o queue = EnqueuedBytes

C2_FullDrop ==
    (queueInit /\ Len(queue) = 100 /\ nPassed' = nPassed + 1) =>
        /\ queue' = queue
        /\ taskWoken' = taskWoken
        /\ wakerSlot' = wakerSlot
        /\ wakerState' = wakerState
        /\ (nPassed + 1) \in {d.idx : d \in dropLog'}

\* C2: the bytes popped so far followed by the bytes still queued are
\* exactly the bytes enqueued, in enqueue order; the queue never holds more
\* than 100 bytes; an add_scancode on a queue of 100 drops the new byte,
\* leaves the queue as it was and wakes nobody.
C2_FifoAndDropNewest == []C2_Fifo /\ [][C2_FullDrop]_vars

C2_Witness ==
    /\ \E d \in dropLog : d.init /\ d.len = 100 /\ d.idx = 101 + Cardinality(dropLog) - 1
    /\ queue = <<>>
    /\ Len(observed) = 100
    /\ \A i \in 1..100 : observed[i] = ScancodeOf(i + Cardinality(dropLog) - 1)

\* The bytes the consumer has popped or can still pop.
ObservedOrQueued ==
    {observed[i] : i \in 1..Len(observed)} \cup {queue[i] : i \in 1..Len(queue)}

\* C3 as stated: every byte passed to add_scancode is observed by the
\* consumer or still queued for it, unless the queue held 100 bytes at the
\* moment of the call.
C3_DroppedOnlyWhenFull ==
    /\ \A d \in dropLog : d.init /\ d.len = 100
    /\ {ScancodeOf(k) : k \in (1..nPassed) \ DroppedIdx} \subseteq ObservedOrQueued

\* C3 amended: every byte passed to add_scancode is observed by the consumer
\* or still queued for it, unless the queue held 100 bytes or was not yet
\* initialised at the moment of the call.
C3_DroppedOnlyWhenFullOrUninitialised ==
    /\ \A d \in dropLog : (d.init /\ d.len = 100) \/ ~d.init
    /\ {ScancodeOf(k) : k \in (1..nPassed) \ DroppedIdx} \subseteq ObservedOrQueued

C3_Witness ==
    /\ \E d \in dropLog : ~d.init
    /\ \E d \in dropLog : d.init /\ d.len = 100
    /\ observed # <<>>

(***************************************************************************)
(* Properties of the sleep loop and of the interrupt handlers              *)
(***************************************************************************)

SleepPcs == {"sleep_end_held", "sleep_check", "sleep_check_held",
             "sleep_hlt", "halted"}

\* C4: a pit::sleep of at least 1 ms that has been entered eventually
\* returns, timer interrupts arriving again and again (a sleep of 0 ms
\* returns within SleepCall, without halting).
C4_SleepEventuallyReturns == (mainPc \in SleepPcs) ~> (mainPc = "run")

\* C5: when the timer handler returns, the tick counter is one more than it
\* was when the handler was entered.
C5_TimerHandlerIncrementsUptime ==
    (irqVector = "Timer" /\ irqPc = "iret") => uptime = irqEntryUptime + 1

\* The interrupt controller in use: the Local APIC once a LocalApic
\* instance exists, the legacy PIC before
ActiveController == IF localApicExists THEN "LocalApic" ELSE "LegacyPic"

\* C6: when the keyboard handler returns it has read port 0x60 once, handed
\* that byte to add_scancode once, and then signalled one end-of-interrupt,
\* to the controller in use.
C6_KeyboardEoiToActiveController ==
    (irqVector = "Keyboard" /\ irqPc = "iret") =>
        /\ portReads = 1
        /\ addArgs = <<irqScancode>>
        /\ eoiLog = <<[controller |-> ActiveController,
                       vector |-> InterruptIndex.Keyboard]>>

\* C7: no handler ever finds a lock it acquires held: PICS and SERIAL1 are
\* held outside the handlers only while interrupts are disabled, and WRITER,
\* which Console::backspace holds with interrupts enabled, has been
\* force-unlocked when the keyboard handler comes to lock it.
C7_NoHandlerSpinsOnInterruptedLock ==
    /\ irqPc # "spin"
    /\ (irqPc = "none" /\ interruptsEnabled) =>
          (~locks["PICS"] /\ ~locks["SERIAL1"])
    /\ irqPc = "eoi" => ~locks["PICS"]
    /\ irqPc = "warn_vga" => ~locks["WRITER"]

\* the keyboard handler, having interrupted Console::backspace with the
\* queue full, holds WRITER for its warning
C7_Witness ==
    /\ mainPc = "backspace_held"
    /\ irqVector = "Keyboard"
    /\ irqPc = "warn_vga_held"
    /\ locks["WRITER"]
    /\ Len(queue) = QueueCapacity

(***************************************************************************)
(* Properties of the ACPI physical-region mapper                           *)
(***************************************************************************)

\* The run of virtual pages the PageAllocator handed out for mapping m
RunOf(m) ==
    CHOOSE r \in {pageRuns[i] : i \in 1..Len(pageRuns)} :
        r.start.page = m.virtual_start.page

PagesOfRun(r) == r.start.page .. (r.start.page + r.n - 1)

\* C11: a map_physical_region(phys, size) reserves and maps exactly
\* n = (align_up(phys+size) - align_down(phys)) / 4096 pages, and its mapping
\* has region_length = size, mapped_length = n*4096 >= size + phys mod 4096
\* and virtual_start = base of the run + phys mod 4096; the page holding
\* the last byte of the region is mapped.
C11_MapsEveryPageOfTheRegion ==
    acpiLast.op = "map" =>
        LET m == acpiLast.m
            phys == acpiLast.phys
            size == acpiLast.size
            n == (((phys + size + 4095) \div 4096) * 4096
                     - (phys \div 4096) * 4096) \div 4096
            run == pageRuns[Len(pageRuns)]
            installed == pageTable \ acpiLast.before
        IN  /\ run.n = n
            /\ Cardinality(installed) = n
            /\ MappedPages(installed) = PagesOfRun(run)
            /\ m.physical_start = phys
            /\ m.region_length = size
            /\ m.mapped_length = n * 4096
            /\ m.mapped_length >= size + (phys % 4096)
            /\ m.virtual_start = [page |-> run.start.page, offset |-> phys % 4096]
            /\ (run.start.page + (((phys % 4096) + size - 1) \div 4096))
                   \in MappedPages(pageTable)

\* a region that starts inside a page and spills into the next one
C11_Witness ==
    /\ acpiLast.op = "map"
    /\ acpiLast.phys = 4097
    /\ acpiLast.size = 4096
    /\ acpiLast.m.mapped_length = 8192
    /\ Cardinality(pageTable \ acpiLast.before) = 2

\* The page-table walk: the physical address of virtual address v
Translate(table, v) ==
    LET hit == {l \in table : l.page = v.page}
    IN  IF hit = {} THEN None ELSE Some((CHOOSE l \in hit : TRUE).frame + v.offset)

\* The first and the last byte a mapping has in each of its pages
ByteProbes(m) ==
    {i \in 0..(m.region_length - 1) :
        \/ i = 0
        \/ i = m.region_length - 1
        \/ (m.virtual_start.offset + i) % 4096 \in {0, 4095}}

\* C12: for every live mapping m, virtual_start + i translates to
\* physical_start + i, and page base + j is mapped Present+Writable, and
\* only once, to frame align_down(physical_start) + j*4096.
C12_MappingTranslatesToItsPhysicalBytes ==
    \A m \in acpiMappings :
        /\ \A i \in ByteProbes(m) :
              Translate(pageTable,
                        [page |-> m.virtual_start.page
                                    + ((m.virtual_start.offset + i) \div 4096),
                         offset |-> (m.virtual_start.offset + i) % 4096])
                = Some(m.physical_start + i)
        /\ \A j \in 0..((m.mapped_length \div 4096) - 1) :
              {l \in pageTable : l.page = m.virtual_start.page + j}
                = {[page |-> m.virtual_start.page + j,
                    frame |-> (m.physical_start \div 4096) * 4096 + j * 4096,
                    flags |-> {"PRESENT", "WRITABLE"}]}

\* two live mappings, one of them two pages long from an unaligned start
C12_Witness ==
    /\ Cardinality(acpiMappings) = 2
    /\ \E m \in acpiMappings :
          /\ m.physical_start = 8191
          /\ m.region_length = 4097
          /\ m.mapped_length = 8192

\* C13: unmap_physical_region(m) removes exactly the leaves of the
\* mapped_length/4096 pages installed for m, from the page containing
\* virtual_start on, flushes each of them and nothing else, and leaves every
\* other leaf as it was; a map followed by the unmap of the same mapping
\* restores the leaves as they were before the map.
C13_UnmapRemovesExactlyTheMappedPages ==
    acpiLast.op = "unmap" =>
        LET m == acpiLast.m
            pages == PagesOfRun(RunOf(m))
        IN  /\ ~acpiPanicked
            /\ Cardinality(pages) = m.mapped_length \div 4096
            /\ pages \subseteq MappedPages(acpiLast.before)
            /\ pageTable = {l \in acpiLast.before : l.page \notin pages}
            /\ acpiLast.flushed = pages
            /\ (acpiPrev.op = "map" /\ acpiPrev.m = m) => pageTable = acpiPrev.before

\* a two-page mapping with a sub-page start unmapped right after it was
\* made, another mapping being alive
C13_Witness ==
    /\ acpiLast.op = "unmap"
    /\ acpiPrev.op = "map"
    /\ acpiPrev.m = acpiLast.m
    /\ acpiLast.m.virtual_start.offset = 4095
    /\ acpiLast.m.mapped_length = 8192
    /\ acpiMappings # {}

(***************************************************************************)
(* Properties of the PCI enumeration                                       *)
(***************************************************************************)

\* The populated slots in ascending (bus, device) order
RECURSIVE SlotsAscending(_)
SlotsAscending(slots) ==
    IF slots = {} THEN <<>>
    ELSE LET least == CHOOSE s \in slots :
                         \A t \in slots : s[1] < t[1] \/ (s[1] = t[1] /\ s[2] <= t[2])
         IN  <<least>> \o SlotsAscending(slots \ {least})

\* C14: once the enumeration has ended it has probed function 0 of every
\* device 0..31 of every bus 0..255, and has yielded every slot whose vendor
\* id is not 0xFFFF once, with its vendor and device id, in ascending
\* (bus, device) order, and nothing else.
C14_EnumerationYieldsEveryPresentSlot ==
    pciExhaustedCalls >= 1 =>
        /\ pciProbed = (0..255) \X (0..31)
        /\ LET expected == SlotsAscending(pciConfig)
           IN  /\ Len(pciYielded) = Len(expected)
               /\ \A i \in 1..Len(expected) :
                     /\ pciYielded[i].addr =
                          [segment |-> 0, bus |-> expected[i][1],
                           device |-> expected[i][2], function |-> 0]
                     /\ pciYielded[i].vendor_id # 65535
                     /\ pciYielded[i].vendor_id = PciIdsOf(expected[i]).vendor
                     /\ pciYielded[i].device_id = PciIdsOf(expected[i]).device

(***************************************************************************)
(* Properties of request_shutdown                                          *)
(***************************************************************************)

\* the \_S5_ element behind the i-th PM1 write: element 0 for PM1a, element
\* 1 for PM1b
SleepTypeOfWrite(i) == acpiData.s5[1].elems[i].value

\* C15: every word the ACPI S5 sequence writes to a PM1 control block is
\* SLP_EN (bit 13) or'ed with the block's sleep type shifted left by 10, so
\* that sleep type 5 gives 0x3400.
C15_SleepWordShiftsTheSleepType ==
    acpiEntered =>
        \A i \in DOMAIN sdPortWrites :
            sdPortWrites[i].value =
                BitOr(ACPI_SLP_EN, (SleepTypeOfWrite(i) * 1024) % 65536, 16)

\* request_shutdown has left its match
ShutdownDecided == sdPc \notin {"idle", "call", "match"}

\* C16: on a brand string of a known emulator request_shutdown writes the
\* emulator's one magic word and returns without entering the ACPI path:
\* 0x2000 to 0x604 on old QEMU, 0x3400 to 0x4004 on VirtualBox.
C16_KnownEmulatorTakesItsFastPath ==
    /\ (cpuBrand = Some("TCGTCGTCGTCG") /\ ShutdownDecided) =>
          /\ sdPc = "returned"
          /\ sdPortWrites = <<PortWrite(1540, 8192)>>
          /\ ~acpiEntered
    /\ (cpuBrand = Some("VBoxVBoxVBox") /\ ShutdownDecided) =>
          /\ sdPc = "returned"
          /\ sdPortWrites = <<PortWrite(16388, 13312)>>
          /\ ~acpiEntered

WakCalls == Cardinality({i \in DOMAIN amlCalls : amlCalls[i] = AmlCall("\\_WAK", 5)})

\* shutdown_using_acpi has returned an Err
FailureReported == acpiEntered /\ sdError # None /\ sdPc \in {"expect", "panicked"}

\* C17 as stated: whatever step of the S5 sequence fails, _WAK(5) was
\* invoked exactly once when the failure is reported, and it is never
\* invoked when the sequence succeeds.
C17_WakOnceOnEveryFailure ==
    /\ FailureReported => WakCalls = 1
    /\ sdError = None => WakCalls = 0

\* C17: when the S5 sequence fails with an AML context loaded, _WAK(5) was
\* invoked exactly once when the failure is reported; without an AML context
\* the failure is reported with no _WAK; _WAK is never invoked when the
\* sequence succeeds.
C17_WakOnceOnFailureWithAml ==
    /\ FailureReported => WakCalls = IF acpiData.aml THEN 1 ELSE 0
    /\ sdError = None => WakCalls = 0

C17_Witness ==
    /\ sdPc = "expect"
    /\ sdError = Some("NoFadt")
    /\ amlCalls = <<AmlCall("\\_PTS", 5), AmlCall("\\_WAK", 5)>>

\* C18: when the ACPI shutdown fails, request_shutdown hands the error back
\* and returns to its caller after the _WAK recovery: it does not panic.
C18_FailedShutdownReturnsToCaller ==
    (acpiEntered /\ sdError # None) => sdPc # "panicked"

(***************************************************************************)
(* Properties of IOApic::initialize                                        *)
(***************************************************************************)

EntryBefore(i) == read_entry(ioInitialRegs, i)
EntryAfter(i) == read_entry(ioRegs, i)

\* C19: initialize leaves every entry that was Masked as it was, and gives
\* every entry that was Unmasked the vector spurious + index, unmasked; the
\* entry of IRQ 2 excepted.
C19_MaskedEntriesAreLeftAlone ==
    ioPc = "initialized" =>
        \A i \in DOMAIN ioRegs \ {2} :
            IF EntryBefore(i).mask = Masked
              THEN EntryAfter(i) = EntryBefore(i)
              ELSE /\ EntryAfter(i).vector = 100 + i
                   /\ EntryAfter(i).mask = Unmasked

\* C20: after initialize, entry 2 has vector Timer and is Unmasked, and its
\* delivery mode, destination, polarity and trigger mode are what they were.
C20_Irq2DeliversTheTimerVector ==
    ioPc = "initialized" =>
        /\ EntryAfter(2).vector = 32
        /\ EntryAfter(2).mask = Unmasked
        /\ EntryAfter(2).delivery_mode = EntryBefore(2).delivery_mode
        /\ EntryAfter(2).destination = EntryBefore(2).destination
        /\ EntryAfter(2).polarity = EntryBefore(2).polarity
        /\ EntryAfter(2).trigger_mode = EntryBefore(2).trigger_mode

C20_Witness ==
    /\ ioPc = "initialized"
    /\ redirection_entry_count = 4
    /\ EntryBefore(2).mask = Masked
    /\ EntryBefore(2).vector = 85
    /\ EntryBefore(3).mask = Masked
    /\ EntryAfter(2).vector = 32
    /\ EntryAfter(3).vector = 103

\* the entry is one read_entry can return: its destination is of the variant
\* of its destination mode, a physical APIC id being of four bits
RoundTrippable(entry) ==
    entry.destination = DestinationField_new(entry.destination_mode, entry.destination.val)

OtherEntriesUntouched ==
    \A j \in DOMAIN ioRegs \ {ioIndex} : ioRegs[j] = ioInitialRegs[j]

\* C21 as stated: whatever entry e is written at index i, read_entry(i)
\* returns e field for field, and no other entry has changed.
C21_WriteThenReadReturnsTheEntry ==
    ioPc = "written" =>
        /\ read_entry(ioRegs, ioIndex) = ioEntry[1]
        /\ OtherEntriesUntouched

\* C21: write_entry(i, e) followed by read_entry(i) returns e field for
\* field when e's destination is of the variant of e's destination mode and
\* a physical APIC id is below 16; the write changes no other entry.
C21_WriteThenReadReturnsARoundTrippableEntry ==
    ioPc = "written" =>
        /\ RoundTrippable(ioEntry[1]) => read_entry(ioRegs, ioIndex) = ioEntry[1]
        /\ OtherEntriesUntouched

C21_Witness ==
    /\ ioPc = "written"
    /\ ioIndex = 1
    /\ ioEntry = Some(IOApicRedirectionEntry(255, 5, Logical, 1, 1, 1, 1, Masked,
                         [kind |-> "LogicalSetOfProcessors", val |-> 255]))
    /\ read_entry(ioRegs, 1) = ioEntry[1]
    /\ ioRegs[0] = ioInitialRegs[0]
    /\ ioRegs[1] # ioInitialRegs[1]

(***************************************************************************)
(* Properties of the LocalApic                                             *)
(***************************************************************************)

\* C22: no register is read unless its permission is ReadOnly or ReadWrite,
\* none is written unless it is WriteOnly or ReadWrite, and the assertions
\* of read and write never fail.
C22_AccessesRespectPermissions ==
    /\ ~lapicPanicked
    /\ \A a \in lapicLog :
          /\ a.kind = "read" => permissions(a.register) \in {"ReadOnly", "ReadWrite"}
          /\ a.kind = "write" => permissions(a.register) \in {"WriteOnly", "ReadWrite"}

C22_Witness ==
    /\ lapicPc = "initialized"
    /\ \E a \in lapicLog : a.kind = "write" /\ a.register = "EndOfInterrupt"
    /\ \E a \in lapicLog : a.kind = "read" /\ a.register = "ErrorStatus"
    /\ \E a \in lapicLog : a.kind = "read" /\ a.register = "Id"
    /\ \E a \in lapicLog : a.kind = "write" /\ a.register = "LvtTimer" /\ a.value = 196608

Lvt(register) == from_u32(lapicRegs[register])

\* initialize has just returned
JustInitialized ==
    /\ lapicPc = "initialized"
    /\ \A a \in lapicLog : \E i \in DOMAIN initialize_accesses :
          <<a.kind, a.register, a.value>> = initialize_accesses[i]

\* C23: after initialize the spurious-interrupt-vector register holds 0xFF,
\* the LVT timer carries vector Timer, Periodic and unmasked, LINT0 and
\* LINT1 are masked on the spurious vector, the LVT error entry carries the
\* LvtError vector, and initial count and divide configuration were written.
C23_InitializeProgramsTheLocalVectorTable ==
    (JustInitialized /\ ~lapicStray) =>
        /\ lapicRegs["SpuriousInterruptVector"] = 255
        /\ Lvt("LvtTimer").vector = InterruptIndex.Timer
        /\ lapicRegs["LvtTimer"] \div 131072 = Periodic
        /\ Lvt("LvtTimer").is_masked = 0
        /\ Lvt("LvtLint0").is_masked = 1
        /\ Lvt("LvtLint0").vector = spuriousLocalApic
        /\ Lvt("LvtLint1").is_masked = 1
        /\ Lvt("LvtLint1").vector = spuriousLocalApic
        /\ Lvt("LvtError").vector = lvtErrorVector
        /\ \E a \in lapicLog : a.kind = "write" /\ a.register = "InitialCount"
        /\ \E a \in lapicLog : a.kind = "write" /\ a.register = "DivideConfiguration"

\* C24: end_of_interrupt writes 0 at mapping.virtual_start + 0xB0, and every
\* register access is at virtual_start + the register's offset, inside
\* [virtual_start, virtual_start + mapped_length).
C24_AccessesTargetTheRegisterInsideTheBlock ==
    \A a \in lapicLog :
        /\ a.target = LocalApicRegister[a.register]
        /\ 0 <= a.target
        /\ a.target < LapicMappedLength(lapicBaseOffset)
        /\ a.register = "EndOfInterrupt" => (a.target = 176 /\ a.value = 0)

(***************************************************************************)
(* Properties of init on ACPI failures                                     *)
(***************************************************************************)

\* the firmware has a valid RSDP and tables, of which something is missing
\* or fails: the MADT, the FADT, the MCFG, the AML parse, the AML objects
RecoverableAcpiFailure ==
    /\ bootPlatform.rsdp = "valid"
    /\ bootPlatform.tables
    /\ \/ bootPlatform.madt = "none"
       \/ ~bootPlatform.fadt
       \/ ~bootPlatform.mcfg
       \/ ~bootPlatform.aml_parse
       \/ ~bootPlatform.aml_objects

\* C25: on a recoverable ACPI failure the kernel does not panic, and at the
\* end of init PCI uses the legacy mechanism when there is no MCFG.
C25_RecoverableAcpiFailureDoesNotPanic ==
    RecoverableAcpiFailure =>
        /\ bootPanic = None
        /\ bootPc \notin {"panic", "hlt_loop"}
        /\ (bootPc = "finished" /\ ~bootPlatform.mcfg) => pciMechanism = "legacy"

\* C26: with an RSDP that fails validation acpi::init panics: boot is never
\* past acpi::init without having panicked there.
C26_InvalidRsdpPanicsInAcpiInit ==
    (bootPlatform.rsdp = "invalid" /\ bootPc \notin {"idle", "acpi::init"}) =>
        /\ bootPanic # None
        /\ bootPc \in {"panic", "hlt_loop"}
        /\ acpiCache = AcpiData_default

(***************************************************************************)
(* Properties of PCI configuration space access                            *)
(***************************************************************************)

\* 0x8000_0000 | bus << 16 | device << 11 | function << 8 | (offset & 0xFC)
\* for device < 32 and function < 8, the enable bit as asked
EncodedAddress(bus, device, function, offset, enabled) ==
    U32((IF enabled THEN 32768 ELSE 0) + bus,
        device * 2048 + function * 256 + ((offset % 256) \div 4) * 4)

\* C27: an AML PCI read writes the encoded address to 0xCF8 and then reads
\* the data port 0xCFC; an AML PCI write writes the encoded address to 0xCF8
\* and then the value to 0xCFC.
C27_AmlAccessorsUseTheAddressAndDataPorts ==
    LET request == cfgCall.addr
        encoded == EncodedAddress(request.bus, request.device, request.function,
                                  request.offset, TRUE)
    IN /\ cfgCall.op = "aml_read_pci" =>
            /\ Len(cfgLog) = 2
            /\ cfgLog[1] = PortAccess(3320, "write", encoded)
            /\ cfgLog[2].port = 3324 /\ cfgLog[2].dir = "read"
       /\ cfgCall.op = "aml_write_pci" =>
            /\ Len(cfgLog) = 2
            /\ cfgLog[1] = PortAccess(3320, "write", encoded)
            /\ cfgLog[2] = PortAccess(3324, "write", cfgCall.arg[2])

\* C28: the legacy address of bus, device < 32, function < 8 and offset is
\* the encoded address, no other (bus, device, function) has it, and bus 0
\* device 2 function 0 offset 0 gives 0x8000_1000.
C28_LocalBusAddressEncodesTheFunction ==
    cfgCall.op = "create_local_bus_address" =>
        LET a == cfgCall.addr
        IN /\ cfgResult = EncodedAddress(a.bus, a.device, a.function,
                                         cfgCall.offset, cfgCall.arg)
           /\ \A b \in CfgAddresses :
                create_local_bus_address(b, cfgCall.offset, cfgCall.arg) = cfgResult
                    => <<b.bus, b.device, b.function>> = <<a.bus, a.device, a.function>>
           /\ create_local_bus_address(PciAddress(0, 0, 2, 0), 0, TRUE) = U32(32768, 4096)

\* C28 happens: bus 255 device 31 function 7 offset 0xFE encodes to
\* 0x80FF_FFFC
C28_Witness ==
    /\ cfgCall = CfgCall("create_local_bus_address", PciAddress(0, 255, 31, 7), 254, TRUE)
    /\ cfgResult = U32(33023, 65532)

\* off XOR 2
OtherHalf(offset) == IF (offset \div 2) % 2 = 1 THEN offset - 2 ELSE offset + 2

\* C29: write_word on a function that answers writes back a dword whose
\* selected half is v and whose other half is what the device held; a
\* following read_word gives v, and the other half reads as before.
C29_WriteWordKeepsTheOtherHalf ==
    LET a == cfgCall.addr
        offset == cfgCall.offset
        slot == EncodedAddress(a.bus, a.device, a.function, offset, TRUE)
        written == cfgLog[Len(cfgLog)]
    IN (cfgCall.op = "write_word" /\ slot \in DOMAIN cfgBefore) =>
         /\ written.port = 3324 /\ written.dir = "write"
         /\ ShiftRightAndMask(written.value, offset) = cfgCall.arg
         /\ ShiftRightAndMask(written.value, OtherHalf(offset))
              = ShiftRightAndMask(cfgBefore[slot], OtherHalf(offset))
         /\ read_word(cfgSpace, a, offset).result = cfgCall.arg
         /\ read_word(cfgSpace, a, OtherHalf(offset)).result
              = ShiftRightAndMask(cfgBefore[slot], OtherHalf(offset))

\* C30: for an address inside an MCFG entry the PCIe offset is
\* (bus - bus_start) << 20 | device << 15 | function << 12 | (offset & 0xFFF),
\* below (bus_end - bus_start + 1) << 20, which is the length mapped for the
\* entry; bus 3 device 0 function 0 offset 0x10 with bus_start 0 gives
\* 0x30_0010.
C30_ExpressOffsetStaysInsideTheEntry ==
    LET a == cfgCall.addr
        entry == cfgCall.arg
    IN /\ (/\ cfgCall.op = "config_space_to_address_space"
           /\ entry.pci_segment_group = a.segment
           /\ entry.bus_number_start <= a.bus /\ a.bus <= entry.bus_number_end) =>
            LET buses == entry.bus_number_end - entry.bus_number_start + 1
                expected == (a.bus - entry.bus_number_start) * 1048576
                            + a.device * 32768 + a.function * 4096
                            + (cfgCall.offset % 4096)
            IN /\ cfgResult = Some(expected)
               /\ expected < buses * 1048576
               /\ PciExpressMapping(entry).mapped_length = buses * 1048576
       /\ \A entry03 \in McfgEntries :
            (entry03.bus_number_start = 0 /\ entry03.bus_number_end = 3) =>
                config_space_to_address_space(entry03, PciAddress(0, 3, 0, 0), 16)
                    = Some(3145744)

\* C30 happens: the highest function of the last bus of an entry, at the
\* last byte of its 4 KiB
C30_Witness ==
    /\ cfgCall.op = "config_space_to_address_space"
    /\ cfgCall.addr = PciAddress(0, 2, 31, 7)
    /\ cfgCall.arg.bus_number_start = 1 /\ cfgCall.arg.bus_number_end = 2
    /\ cfgCall.offset = 4095
    /\ cfgResult = Some(2097151)

(***************************************************************************)
(* Properties of base_address, enable_bus_mastering and the legacy ports   *)
(***************************************************************************)

\* the BAR count of a header: bits 0..6 of the byte at 0xE give the layout,
\* Normal 6, PCI-to-PCI bridge 2, CardBus bridge and anything else 0
PermittedBars(header_byte) ==
    IF header_byte % 128 = 0 THEN 6 ELSE IF header_byte % 128 = 1 THEN 2 ELSE 0

\* C31: base_address(addr, i) of a function that answers returns the dword
\* at 0x10 + 4 * i exactly when i is below the BAR count of the function's
\* header type, and otherwise returns none having read no BAR.
C31_BaseAddressFollowsTheHeaderType ==
    (cfgCall.op = "base_address" /\ DeviceSlot(12) \in DOMAIN cfgBefore
        /\ cfgCall.addr = PciAddress(0, 0, 2, 0)) =>
        LET idx == cfgCall.arg
            header_byte == cfgBefore[DeviceSlot(12)][1] % 256
        IN IF idx < PermittedBars(header_byte)
           THEN cfgResult = Some(cfgBefore[DeviceSlot(16 + 4 * idx)])
           ELSE /\ cfgResult = None
                /\ \A i \in 1..Len(cfgLog) :
                     cfgLog[i].port = 3320 => MaskFC(cfgLog[i].value[2]) < 16

\* C36: enable_bus_mastering on a function that answers leaves its command
\* word with bit 2 set and the other bits as they were, and leaves the
\* status word as it was.
C36_BusMasteringSetsOnlyBitTwo ==
    (cfgCall.op = "enable_bus_mastering" /\ DeviceSlot(4) \in DOMAIN cfgBefore
        /\ cfgCall.addr = PciAddress(0, 0, 2, 0)) =>
        /\ cfgSpace[DeviceSlot(4)][2] = BitOr(cfgBefore[DeviceSlot(4)][2], 4, 16)
        /\ cfgSpace[DeviceSlot(4)][1] = cfgBefore[DeviceSlot(4)][1]
        /\ enable_bus_mastering(cfgSpace, cfgCall.addr).space = cfgSpace

\* C38: read_dword, read_word and write_word write to 0xCF8 an address with
\* bit 31 set before any access to 0xCFC, and write_word programs the
\* address read_word programs for the same function and offset.
C38_LegacyAccessesSetTheEnableBit ==
    cfgCall.op \in {"read_dword", "read_word", "write_word"} =>
        /\ Len(cfgLog) >= 2
        /\ cfgLog[1].port = 3320 /\ cfgLog[1].dir = "write"
        /\ cfgLog[1].value[1] >= 32768
        /\ \A i \in 2..Len(cfgLog) : cfgLog[i].port = 3324
        /\ cfgLog[1].value = read_word(cfgSpace, cfgCall.addr, cfgCall.offset).log[1].value

\* _PTS(5) is the first AML method invoked
PtsInvoked == amlCalls # <<>> /\ amlCalls[1] = AmlCall("\\_PTS", 5)

\* the writes of the S5 sequence go to the PM1a block first and to the PM1b
\* block second
Pm1aBeforePm1b(writes) ==
    /\ Len(writes) <= 2
    /\ Len(writes) >= 1 => writes[1].port = acpiData.pm1a.block[1].address
    /\ Len(writes) = 2 => writes[2].port = acpiData.pm1b.block[1].address

\* the step that enters shutdown_using_acpi and runs before_acpi_shutdown
PrepareStep ==
    (~acpiEntered /\ acpiEntered') =>
        /\ acpiData.aml => amlCalls' = <<AmlCall("\\_PTS", 5)>>
        /\ (acpiData.aml /\ acpiData.pts \in {"Ok", "ValueDoesNotExist(\\_PTS)"}) =>
              (sdError' = None /\ sdPc' = "do")
        /\ (acpiData.aml /\ acpiData.pts \notin {"Ok", "ValueDoesNotExist(\\_PTS)"}) =>
              (sdError' # None /\ sdPc' = "recover")

\* a step of the ACPI path that writes to a port
WriteStep ==
    (acpiEntered /\ sdPortWrites' # sdPortWrites) =>
        /\ acpiData.aml /\ PtsInvoked
        /\ Pm1aBeforePm1b(sdPortWrites')

\* C32: on the ACPI path _PTS(5) has been invoked before any write to a PM1
\* control port and the PM1a write comes before the PM1b write; a _PTS that
\* does not exist lets the sequence go on, any other _PTS error ends it
\* before any port write.
C32_PtsComesBeforeThePm1Writes ==
    /\ [][PrepareStep /\ WriteStep]_vars
    /\ []((acpiEntered /\ acpiData.aml
            /\ acpiData.pts \notin {"Ok", "ValueDoesNotExist(\\_PTS)"})
           => sdPortWrites = <<>>)

\* C32 happens: _PTS does not exist and both PM1 blocks have been written
C32_Witness ==
    /\ acpiEntered
    /\ acpiData.pts = "ValueDoesNotExist(\\_PTS)"
    /\ PtsInvoked
    /\ Len(sdPortWrites) = 2
    /\ sdPc = "expect"

\* do_shutdown_using_acpi has run and the kernel is still running
DoReturned ==
    /\ acpiEntered
    /\ before_acpi_shutdown(acpiData) = None
    /\ sdPc \in {"recover", "expect", "panicked", "returned"}

\* the error a PM1 block and its sleep type are refused with, None if
\* they pass every check
BlockError(value, block) ==
    IF value.kind # "Integer" THEN Some("S5ValueNotInteger")
    ELSE IF value.value > 65535 THEN Some("S5ValueOutsideWordSize")
    ELSE IF block.address_space # "SystemIo" THEN Some("PmControlBlockNotInSystemIoSpace")
    ELSE IF block.address > 65535 THEN Some("PmControlAddressNotInIoPortRange")
    ELSE None

\* _S5_ is a package long enough for the blocks the FADT has
S5Package ==
    /\ acpiData.aml /\ acpiData.fadt
    /\ acpiData.s5 # None /\ acpiData.s5[1].kind = "Package"
    /\ ~acpiData.pm1a.err
    /\ Len(acpiData.s5[1].elems) >= 1

\* C33: the ACPI shutdown writes to a PM1 control port only when every
\* check for that block has passed; a missing AML context gives NoAml, a
\* missing FADT NoFadt, an _S5_ that is no package S5PathNotPackage, and a
\* block that fails a check gives the error of that check and is not
\* written.
C33_Pm1WriteOnlyAfterItsChecks ==
    DoReturned =>
        /\ ~acpiData.aml => (sdError = Some("NoAml") /\ sdPortWrites = <<>>)
        /\ (acpiData.aml /\ ~acpiData.fadt) =>
              (sdError = Some("NoFadt") /\ sdPortWrites = <<>>)
        /\ (acpiData.aml /\ acpiData.fadt /\ acpiData.s5 # None
              /\ acpiData.s5[1].kind # "Package") =>
              (sdError = Some("S5PathNotPackage") /\ sdPortWrites = <<>>)
        /\ S5Package =>
              LET elems == acpiData.s5[1].elems
                  first == BlockError(elems[1], acpiData.pm1a.block[1])
              IN /\ first # None => (sdError = first /\ sdPortWrites = <<>>)
                 /\ (first = None /\ ~acpiData.pm1b.err /\ acpiData.pm1b.block # None
                       /\ Len(elems) >= 2
                       /\ BlockError(elems[2], acpiData.pm1b.block[1]) # None) =>
                       /\ sdError = BlockError(elems[2], acpiData.pm1b.block[1])
                       /\ Len(sdPortWrites) = 1
                       /\ sdPortWrites[1].port = acpiData.pm1a.block[1].address
        /\ \A i \in DOMAIN sdPortWrites : sdPortWrites[i].port <= 65535

\* C33 happens: the PM1a block was written and the PM1b sleep type is
\* refused
C33_Witness ==
    /\ DoReturned
    /\ sdError = Some("S5ValueNotInteger")
    /\ Len(sdPortWrites) = 1

\* C37: the ACPI shutdown never indexes the _S5_ package out of bounds: on
\* an empty package, or a package of one element with a PM1b block, it
\* returns an error or skips the PM1b write; it does not panic there.
C37_S5PackageIsNeverIndexedOutOfBounds ==
    (acpiEntered /\ acpiData.s5 # None /\ acpiData.s5[1].kind = "Package"
        /\ Len(acpiData.s5[1].elems) < 2) =>
        ~(sdPc = "panicked" /\ sdError = None)

\* the end-of-interrupts of the handler that runs, on its own vector
OwnEoi == [controller |-> "LegacyPic", vector |-> InterruptIndex[irqVector]]

\* C34: a handler that is about to return has issued one end-of-interrupt,
\* for its own vector, and issued it as its last action: no handler that is
\* still at work has issued one.  The keyboard handler has by then read port
\* 0x60 once and handed the byte to add_scancode, whether the byte was
\* enqueued or not.  Every handler entered comes to its return.
C34_OneEoiAsTheLastActionOfTheHandler ==
    /\ [](/\ irqPc = "iret" => eoiLog = <<OwnEoi>>
          /\ irqPc # "iret" => eoiLog = <<>>
          /\ (irqVector = "Keyboard" /\ irqPc \in {"eoi", "eoi_held", "iret"}) =>
                (portReads = 1 /\ addArgs = <<irqScancode>>))
    /\ ((irqPc # "none") ~> (irqPc = "iret"))

\* C34 happens: the keyboard handler returns with the queue full, its byte
\* handed to add_scancode and its one end-of-interrupt issued
C34_Witness ==
    /\ irqVector = "Keyboard"
    /\ irqPc = "iret"
    /\ eoiLog = <<OwnEoi>>
    /\ addArgs = <<irqScancode>>
    /\ Len(queue) = QueueCapacity

(***************************************************************************)
(* Properties of the executor with the keyboard task                       *)
(***************************************************************************)

C39_StreamNeverEndsAndRunNeverReturns ==
    /\ streamPc # "ended"
    /\ execPc # "returned"
    /\ streamPc = "ready" => observed # <<>>
    /\ execPc \in {"idle_check", "hlt", "halted"} => streamPc = "pending"

\* C39 happens: the task has taken scancodes and is pending, the executor
\* halted
C39_Witness ==
    /\ execPc = "halted"
    /\ streamPc = "pending"
    /\ Len(observed) = MaxExecScancodes

(***************************************************************************)
(* Properties of the frame allocator                                       *)
(***************************************************************************)

\* C8: over any sequence of allocate_frame and allocate_frame_from_physical
\* calls, no call returns a frame that an earlier call already returned.
C8_NoFrameReturnedTwice == ~frameReturnedTwice

\* The number of frames a region contributes: one per 4 KiB step of a
\* Usable region, none for a region of another kind.
FramesOfRegion(r) ==
    IF r.kind = "Usable" /\ r.start < r.end
      THEN ((r.end - r.start) + 4095) \div 4096
      ELSE 0

RECURSIVE FramesUpTo(_, _)
FramesUpTo(regions, i) ==
    IF i = 0 THEN 0 ELSE FramesUpTo(regions, i - 1) + FramesOfRegion(regions[i])

\* The k-th (k >= 1) frame address of the Usable regions in map order.
KthUsableFrame(regions, k) ==
    LET holds(i) == FramesUpTo(regions, i - 1) < k /\ k <= FramesUpTo(regions, i)
    IN  IF \E i \in 1..Len(regions) : holds(i)
          THEN LET i == CHOOSE j \in 1..Len(regions) : holds(j)
               IN  Some(regions[i].start + (k - FramesUpTo(regions, i - 1) - 1) * 4096)
          ELSE None

ScenarioMap == << Region(1048576, 2097152, "Usable") >>

\* C9: the k-th call of allocate_frame returns the k-th 4 KiB-stepped frame
\* of the Usable regions in memory-map order, and None once they are
\* exhausted; on [0x10_0000, 0x20_0000) calls 1..256 return
\* 0x10_0000 + (k-1)*0x1000 and call 257 and later return None.
C9_KthAllocateReturnsKthUsableFrame ==
    frameLastOp = "allocate" =>
        /\ frameLastResult = KthUsableFrame(memory_regions, allocateCalls)
        /\ memory_regions = ScenarioMap =>
              frameLastResult =
                IF allocateCalls <= 256
                  THEN Some(1048576 + (allocateCalls - 1) * 4096)
                  ELSE None

C9_Witness ==
    /\ memory_regions = ScenarioMap
    /\ frameLastOp = "allocate"
    /\ allocateCalls = 257
    /\ frameLastResult = None
    /\ 1048576 + 255 * 4096 \in framesReturned

(***************************************************************************)
(* Properties of the page allocator                                        *)
(***************************************************************************)

\* C10: the first run starts at 0x1_000_000_000 (page 0x1_000_000), every
\* run with n >= 1 starts where the previous one ended and the cursor is
\* the end of the last run; runs are page-aligned, strictly increasing and
\* pairwise disjoint, so no page is handed out twice.
C10_PageAllocatorIsMonotonicBump ==
    /\ pageRuns # <<>> => pageRuns[1].start = [page |-> 16777216, offset |-> 0]
    /\ \A i \in 1..Len(pageRuns) :
          /\ pageRuns[i].n >= 1
          /\ pageRuns[i].start.offset = 0
    /\ \A i \in 1..(Len(pageRuns) - 1) :
          /\ pageRuns[i + 1].start.page = pageRuns[i].start.page + pageRuns[i].n
          /\ pageRuns[i + 1].start.page > pageRuns[i].start.page
    /\ pageRuns # <<>> =>
          /\ addr.page = pageRuns[Len(pageRuns)].start.page + pageRuns[Len(pageRuns)].n
          /\ addr.offset = 0
    /\ \A i, j \in 1..Len(pageRuns) :
          i < j =>
            (pageRuns[i].start.page .. (pageRuns[i].start.page + pageRuns[i].n - 1))
              \cap (pageRuns[j].start.page .. (pageRuns[j].start.page + pageRuns[j].n - 1))
              = {}

C10_Witness ==
    /\ Len(pageRuns) >= 3
    /\ pageRuns[1].n = 2
    /\ pageRuns[2].n = 3
    /\ pageRuns[3].start = [page |-> 16777221, offset |-> 0]

====
